---- MODULE Spec2Model ----
(***************************************************************************)
(* Span/metric decision engine and operation wrappers of otelsql.          *)
(*                                                                         *)
(* The tracer and the meter are passive sinks: a span is the record of    *)
(* the calls made on it (AddEvent, RecordError, SetStatus, End), a         *)
(* histogram is the sequence of observations recorded on it.  Every        *)
(* wrapper method is one action; the order of the effects inside one call  *)
(* (delegate call, span calls, metric closure) is kept in last.effs.       *)
(*                                                                         *)
(* Spec drives the wrappers; SpecMetric and SpecSpan call the metric       *)
(* closure and createSpan directly under every attribute configuration;    *)
(* SpecShared interleaves the statements of two such calls that share the  *)
(* backing array of cfg.Attributes.                                        *)
(*                                                                         *)
(* The other parts of the package have a specification each: SpecOptions   *)
(* (WithAttributes), SpecRegister (Register, two goroutines), SpecComment  *)
(* (the SQL commenter), SpecErrorType (the error classifier), SpecClock    *)
(* (the clock reads of recordMetric) and SpecPropagator                    *)
(* (TextAttributesPropagator).                                             *)
(***************************************************************************)
EXTENDS Integers, Sequences, FiniteSets, TLC

\* Bound on the number of wrapper calls in one behaviour.
MaxCalls == 3

\* Bound on the number of Close calls made on one rows wrapper.
MaxClose == 2

\* The number of driver name slots (var maxDriverSlot = 1000, scaled down;
\* the tests set it to 1).
maxDriverSlot == 2

\* Bound on the number of Register calls one goroutine makes.
MaxRegister == 2

\* Bound on what timeNow() returns, in milliseconds.
MaxNow == 2000

\* Bound on the number of metric closures created while the clock runs.
MaxClosures == 2

\* Bound on the spare capacity of the backing array of cfg.Attributes
\* (cap - len of the slice).
MaxSpare == 2

\* nil span (var span trace.Span left unassigned).
NoSpan == 0

\* Error values a delegate can return; "nil" is the nil error, "EOF" is
\* io.EOF, "ErrSkip" is driver.ErrSkip itself, "wrapErrSkip" is an error
\* wrapping driver.ErrSkip (fmt.Errorf("%w", driver.ErrSkip)).
Errors == {"nil", "EOF", "ErrSkip", "wrapErrSkip", "other"}

\* What the delegate's Connect, Commit, Rollback and Close return: nil,
\* driver.ErrSkip, an error wrapping it, or an errors.New error.
DelegateErrors == {"nil", "ErrSkip", "wrapErrSkip", "other"}

\* What the delegate's Next returns: the above or io.EOF.
NextErrors == DelegateErrors \cup {"EOF"}

\* The wrapper object a behaviour drives; "utils" stands for direct calls of
\* the helpers of utils.go.
Wrappers == {"otConnector", "otTx", "otRows", "utils"}

MethodConnectorConnect == "sql.connector.connect"
MethodTxCommit == "sql.tx.commit"
MethodTxRollback == "sql.tx.rollback"
MethodRows == "sql.rows"
MethodConnQuery == "sql.conn.query"
MethodStmtExec == "sql.stmt.exec"
EventRowsNext == "sql.rows.next"

\* The methods and queries of the direct calls of recordMetric and createSpan.
MetricMethods == {MethodConnQuery, MethodStmtExec}
SpanMethods == {MethodConnQuery, MethodStmtExec}
Queries == {"SELECT 1", "example query"}

\* The query-text attribute keys: semconvlegacy.DBStatementKey and
\* semconv.DBQueryTextKey.
DBStatementKey == "db.statement"
DBQueryTextKey == "db.query.text"

OTelSemConvStabilityOptInNone == "none"
OTelSemConvStabilityOptInDup == "dup"
OTelSemConvStabilityOptInStable == "stable"

VARIABLES
  obj,            \* the wrapper object under the caller's hands
  cfg,            \* config shared by every wrapper (read-only after Init)
  ctxParent,      \* TRUE iff the calling context carries a valid parent span
  spans,          \* spans started on the tracer, in start order
  legacyLatency,  \* observations of instruments.legacyLatency
  duration,       \* observations of instruments.duration
  rows,           \* otRows wrappers created by newRows
  ncalls,         \* number of calls made so far
  last,           \* the call that returned last
  backing,        \* the backing array of the slice cfg.Attributes
  gos,            \* goroutines running createSpan, a metric closure or Register
  options,        \* the attribute lists of the WithAttributes options applied
  drivers,        \* the names registered with database/sql (sql.Drivers())
  registerLock,   \* the goroutine holding registerLock, 0 if none
  propagator,     \* a TextAttributesPropagator: its Attributes map
  carrier,        \* the TextMapCarrier handed to the propagator
  now,            \* what timeNow() returns
  closure,        \* the metric closures obtained and not yet invoked
  commenter       \* the SQL commenter: enabled flag and propagators

\* The variables of the wrappers and their sinks.
wrapperVars == <<obj, cfg, ctxParent, spans, legacyLatency, duration, rows, ncalls, last>>

\* The variables of the other parts of the package.
packageVars == <<options, drivers, registerLock, propagator, carrier, now, closure,
                 commenter>>

vars == <<obj, cfg, ctxParent, spans, legacyLatency, duration, rows, ncalls, last,
          backing, gos, options, drivers, registerLock, propagator, carrier, now,
          closure, commenter>>

\* Nothing registered, no option applied, no propagator in use, the clock
\* at its origin.
NoPackageState ==
  /\ options = <<>>
  /\ drivers = {}
  /\ registerLock = 0
  /\ propagator = <<>>
  /\ carrier = <<>>
  /\ now = 0
  /\ closure = <<>>
  /\ commenter = <<>>

----------------------------------------------------------------------------
\* Configuration

SpanFilters == {"nil", "keep", "omit"}
RecordErrors == {"nil", "accept", "reject"}

SpanOptionsSet ==
  [ OmitConnectorConnect : BOOLEAN,
    OmitRows : BOOLEAN,
    RowsNext : BOOLEAN,
    DisableErrSkip : BOOLEAN,
    RecordError : RecordErrors,
    AllowRoot : BOOLEAN,
    SpanFilter : SpanFilters,
    DisableQuery : BOOLEAN ]

\* attribute.KeyValue
KeyValue(k, v) == [key |-> k, value |-> v]

\* defaultattribute of the tests, and a second base attribute.
defaultattribute == KeyValue("test", "foo")
secondattribute == KeyValue("test2", "bar")

\* The values of cfg.Attributes: none, one or two base attributes.
BaseAttributes == { <<>>, <<defaultattribute>>, <<defaultattribute, secondattribute>> }

\* The getters are nil (FALSE) or set (TRUE); a set getter returns the list
\* given by the operator of its name below.
config ==
  [ SpanOptions : SpanOptionsSet,
    Attributes : BaseAttributes,
    AttributesGetter : BOOLEAN,
    InstrumentAttributesGetter : BOOLEAN,
    InstrumentErrorAttributesGetter : BOOLEAN,
    DisableSkipErrMeasurement : BOOLEAN,
    SemConvStabilityOptIn : {OTelSemConvStabilityOptInNone,
                             OTelSemConvStabilityOptInDup,
                             OTelSemConvStabilityOptInStable} ]

\* The SpanFilter values used by the callers: nil, keep (returns true),
\* omit (returns false).
SpanFilterFn(f) == f = "keep"

\* The RecordError predicates: accept returns true, reject returns false.
RecordErrorFn(f, err) == f = "accept"

\* The AttributesGetter of the tests.
AttributesGetter(method, query) == << KeyValue("custom.attr", "custom_value") >>

\* The InstrumentAttributesGetter of the tests.
InstrumentAttributesGetter(method, query) == << KeyValue("dummyKey", "dummyVal") >>

\* The InstrumentErrorAttributesGetter of the tests.
InstrumentErrorAttributesGetter(err) == << KeyValue("errorKey", "errorVal") >>

----------------------------------------------------------------------------
\* Effects of one call, in program order.

\* An effect that hands an attribute list to a sink (attrs) or passes a
\* context on (ctx: the span the context carries, NoSpan if none).
EffWith(e, span, method, arg, attrs, ctx) ==
  [e |-> e, span |-> span, method |-> method, arg |-> arg, attrs |-> attrs, ctx |-> ctx]

Eff(e, span, method, arg) == EffWith(e, span, method, arg, <<>>, NoSpan)

filterSpan(spanOptions) ==
  spanOptions.SpanFilter = "nil" \/ SpanFilterFn(spanOptions.SpanFilter)

\* recordSpanError without the DisableErrSkip case.
recordSpanError_NoSkipCase(span, opts, err) ==
  IF span = NoSpan THEN <<>>
  ELSE IF opts.RecordError # "nil" /\ ~RecordErrorFn(opts.RecordError, err) THEN <<>>
  ELSE IF err = "nil" THEN <<>>
  ELSE << Eff("RecordError", span, "", err), Eff("SetStatus", span, "", "Error") >>

\* recordSpanError without the RecordError predicate.
recordSpanError_NoPredicate(span, opts, err) ==
  IF span = NoSpan THEN <<>>
  ELSE IF err = "nil" THEN <<>>
  ELSE IF err = "ErrSkip"
    THEN IF ~opts.DisableErrSkip
           THEN << Eff("RecordError", span, "", err), Eff("SetStatus", span, "", "Error") >>
           ELSE <<>>
    ELSE << Eff("RecordError", span, "", err), Eff("SetStatus", span, "", "Error") >>

recordSpanError(span, opts, err) ==
  IF span = NoSpan THEN <<>>
  ELSE IF opts.RecordError # "nil" /\ ~RecordErrorFn(opts.RecordError, err) THEN <<>>
  ELSE IF err = "nil" THEN <<>>
  ELSE IF err = "ErrSkip"
    THEN IF ~opts.DisableErrSkip
           THEN << Eff("RecordError", span, "", err), Eff("SetStatus", span, "", "Error") >>
           ELSE <<>>
    ELSE << Eff("RecordError", span, "", err), Eff("SetStatus", span, "", "Error") >>

\* A call of recordSpanError made by a wrapper: the call itself, then what
\* it does to the span.
CallRecordSpanError(span, opts, err) ==
  << Eff("recordSpanError", span, "", err) >> \o recordSpanError(span, opts, err)

----------------------------------------------------------------------------
\* Metric recording (utils.go)

\* err == driver.ErrSkip
IsErrSkip(err) == err = "ErrSkip"

\* errors.Is(err, target) for the error values of Errors.
ErrorsIs(err, target) ==
  \/ err = target
  \/ (err = "wrapErrSkip" /\ target = "ErrSkip")
  \/ (err = "wrapErrBadConn" /\ target = "ErrBadConn")
  \/ (err = "wrapErrRemoveArgument" /\ target = "ErrRemoveArgument")
  \/ (err = "joinErrSkipErrBadConn" /\ target \in {"ErrSkip", "ErrBadConn"})

\* reflect.TypeOf(err): the package path, the name and the string form of
\* the dynamic type.  io.EOF, the driver sentinels and the errors.New errors
\* are *errors.errorString, fmt.Errorf("%w") gives *fmt.wrapError and
\* errors.Join *errors.joinError: pointer types, which have neither package
\* path nor name.
TypeOf(err) ==
  CASE err = "customError" ->
         [PkgPath |-> "github.com/XSAM/otelsql/internal/semconv",
          Name |-> "customError", String |-> "semconv.customError"]
    [] err = "DeadlineExceeded" ->
         [PkgPath |-> "context", Name |-> "deadlineExceededError",
          String |-> "context.deadlineExceededError"]
    [] err = "ptrOpError" ->
         [PkgPath |-> "", Name |-> "", String |-> "*net.OpError"]
    [] err \in {"wrapErrSkip", "wrapErrBadConn", "wrapErrRemoveArgument", "wrapOther"} ->
         [PkgPath |-> "", Name |-> "", String |-> "*fmt.wrapError"]
    [] err = "joinErrSkipErrBadConn" ->
         [PkgPath |-> "", Name |-> "", String |-> "*errors.joinError"]
    [] OTHER ->
         [PkgPath |-> "", Name |-> "", String |-> "*errors.errorString"]

\* semconv.ErrorTypeOther
ErrorTypeOther == "_OTHER"

\* An errorType that takes a type without package path and name for one
\* without a usable name.
errorType_OtherForUnnamed(err) ==
  IF err = "nil" THEN ""
  ELSE IF ErrorsIs(err, "ErrBadConn") THEN "database/sql/driver.ErrBadConn"
  ELSE IF ErrorsIs(err, "ErrSkip") THEN "database/sql/driver.ErrSkip"
  ELSE IF ErrorsIs(err, "ErrRemoveArgument") THEN "database/sql/driver.ErrRemoveArgument"
  ELSE LET t == TypeOf(err)
       IN IF t.PkgPath = "" /\ t.Name = "" THEN ErrorTypeOther
          ELSE t.PkgPath \o "." \o t.Name

\* internal/semconv errorType: the error.type value ("" for no attribute).
errorType(err) ==
  IF err = "nil" THEN ""
  ELSE IF ErrorsIs(err, "ErrBadConn") THEN "database/sql/driver.ErrBadConn"
  ELSE IF ErrorsIs(err, "ErrSkip") THEN "database/sql/driver.ErrSkip"
  ELSE IF ErrorsIs(err, "ErrRemoveArgument") THEN "database/sql/driver.ErrRemoveArgument"
  ELSE LET t == TypeOf(err)
           value == IF t.PkgPath = "" /\ t.Name = "" THEN t.String
                    ELSE t.PkgPath \o "." \o t.Name
       IN IF value = "" THEN ErrorTypeOther ELSE value

queryMethodKey == "method"
queryStatusKey == "status"
DBOperationNameKey == "db.operation.name"
ErrorTypeKey == "error.type"

\* internal/semconv ErrorTypeAttributes: the error.type attribute of err.
ErrorTypeAttributes(err) ==
  IF err = "nil" THEN <<>> ELSE << KeyValue(ErrorTypeKey, errorType(err)) >>

\* recordLegacyLatency that does not read DisableSkipErrMeasurement.
recordLegacyLatency_SkipIsError(c, attributes, method, err) ==
  LET status == IF err # "nil" THEN "error" ELSE "ok"
      attrs == attributes \o << KeyValue(queryMethodKey, method) >>
                          \o << KeyValue(queryStatusKey, status) >>
  IN << EffWith("legacyLatency.Record", NoSpan, method, status, attrs, NoSpan) >>

recordLegacyLatency(c, attributes, method, err) ==
  LET status == IF err # "nil"
                  THEN IF c.DisableSkipErrMeasurement /\ IsErrSkip(err) THEN "ok" ELSE "error"
                  ELSE "ok"
      attrs == attributes \o << KeyValue(queryMethodKey, method) >>
                          \o << KeyValue(queryStatusKey, status) >>
  IN << EffWith("legacyLatency.Record", NoSpan, method, status, attrs, NoSpan) >>

\* recordDuration that keeps the tags of the legacy scheme beside its own.
recordDuration_WithLegacyTags(c, attributes, method, err) ==
  LET tagged == err # "nil" /\ ~(c.DisableSkipErrMeasurement /\ IsErrSkip(err))
      et == IF tagged THEN errorType(err) ELSE ""
      attrs == attributes \o << KeyValue(queryMethodKey, method) >>
                          \o << KeyValue(queryStatusKey, IF tagged THEN "error" ELSE "ok") >>
                          \o << KeyValue(DBOperationNameKey, method) >>
                          \o (IF tagged THEN ErrorTypeAttributes(err) ELSE <<>>)
  IN << EffWith("duration.Record", NoSpan, method, et, attrs, NoSpan) >>

recordDuration(c, attributes, method, err) ==
  LET tagged == err # "nil" /\ ~(c.DisableSkipErrMeasurement /\ IsErrSkip(err))
      et == IF tagged THEN errorType(err) ELSE ""
      attrs == attributes \o << KeyValue(DBOperationNameKey, method) >>
                          \o (IF tagged THEN ErrorTypeAttributes(err) ELSE <<>>)
  IN << EffWith("duration.Record", NoSpan, method, et, attrs, NoSpan) >>

\* The closure invoking the error getter whatever the error is.
MetricAttributes_ErrorGetterAlways(c, method, err) ==
  c.Attributes
  \o (IF c.InstrumentAttributesGetter THEN InstrumentAttributesGetter(method, "") ELSE <<>>)
  \o (IF c.InstrumentErrorAttributesGetter
        THEN InstrumentErrorAttributesGetter(err) ELSE <<>>)

\* The attribute list the closure builds before it dispatches on the mode.
MetricAttributes(c, method, err) ==
  c.Attributes
  \o (IF c.InstrumentAttributesGetter THEN InstrumentAttributesGetter(method, "") ELSE <<>>)
  \o (IF err # "nil" /\ c.InstrumentErrorAttributesGetter
        THEN InstrumentErrorAttributesGetter(err) ELSE <<>>)

\* recordMetric whose dual-emit case records the legacy histogram only.
recordMetric_DupLegacyOnly(c, method, err) ==
  LET attributes == MetricAttributes(c, method, err)
  IN << Eff("metric", NoSpan, method, err) >> \o
     ( CASE c.SemConvStabilityOptIn = OTelSemConvStabilityOptInStable ->
              recordDuration(c, attributes, method, err)
         [] c.SemConvStabilityOptIn = OTelSemConvStabilityOptInDup ->
              recordLegacyLatency(c, attributes, method, err)
         [] c.SemConvStabilityOptIn = OTelSemConvStabilityOptInNone ->
              recordLegacyLatency(c, attributes, method, err)
         [] OTHER -> <<>> )

\* The closure returned by recordMetric, invoked with err.
recordMetric(c, method, err) ==
  LET attributes == MetricAttributes(c, method, err)
  IN << Eff("metric", NoSpan, method, err) >> \o
     ( CASE c.SemConvStabilityOptIn = OTelSemConvStabilityOptInStable ->
              recordDuration(c, attributes, method, err)
         [] c.SemConvStabilityOptIn = OTelSemConvStabilityOptInDup ->
              recordLegacyLatency(c, attributes, method, err)
              \o recordDuration(c, attributes, method, err)
         [] c.SemConvStabilityOptIn = OTelSemConvStabilityOptInNone ->
              recordLegacyLatency(c, attributes, method, err)
         [] OTHER -> <<>> )

----------------------------------------------------------------------------
\* The sinks: what the effects of a call do to the spans and histograms.

\* ParentSpanID and ParentTraceID are the span id and the trace id of the
\* dummy parent span of the calling context.
ParentSpanID == 100
ParentTraceID == 900

\* The context a caller hands to a wrapper: it carries the dummy parent span
\* or no span.  A context is modelled by the id of the span it carries.
CallerCtx(hasParent) == IF hasParent THEN ParentSpanID ELSE NoSpan

\* The trace a span started under context ctx belongs to: the trace of the
\* span the context carries, a new trace (numbered by the new span) if none.
TraceOf(ss, ctx, id) ==
  IF ctx = NoSpan THEN id
  ELSE IF ctx = ParentSpanID THEN ParentTraceID
  ELSE ss[ctx].trace

\* tracer.Start(ctx, name, WithSpanKind(Client), WithAttributes(attrs...)):
\* a new span, child of the span the context carries.
NewSpan(ss, eff) ==
  [ name |-> eff.method, kind |-> "client",
    parent |-> eff.ctx, trace |-> TraceOf(ss, eff.ctx, Len(ss) + 1),
    attrs |-> eff.attrs,
    status |-> "Unset", events |-> <<>>, ends |-> 0 ]

ApplySpan(sp, eff) ==
  CASE eff.e = "AddEvent"    -> [sp EXCEPT !.events = Append(@, eff.arg)]
    [] eff.e = "RecordError" -> [sp EXCEPT !.events = Append(@, "exception")]
    [] eff.e = "SetStatus"   -> [sp EXCEPT !.status = eff.arg]
    [] eff.e = "End"         -> [sp EXCEPT !.ends = @ + 1]
    [] OTHER                 -> sp

RECURSIVE ApplySpans(_, _)
ApplySpans(ss, effs) ==
  IF effs = <<>> THEN ss
  ELSE LET eff == Head(effs)
           ss1 == IF eff.e = "Start" THEN Append(ss, NewSpan(ss, eff))
                  ELSE IF eff.span # NoSpan /\ eff.span <= Len(ss)
                    THEN [ss EXCEPT ![eff.span] = ApplySpan(@, eff)]
                    ELSE ss
       IN ApplySpans(ss1, Tail(effs))

RECURSIVE SelectEffs(_, _)
SelectEffs(effs, kind) ==
  IF effs = <<>> THEN <<>>
  ELSE IF Head(effs).e = kind
    THEN <<Head(effs)>> \o SelectEffs(Tail(effs), kind)
    ELSE SelectEffs(Tail(effs), kind)

Observations(effs, kind) ==
  LET sel == SelectEffs(effs, kind)
  IN [i \in 1..Len(sel) |->
        [method |-> sel[i].method, tag |-> sel[i].arg, attrs |-> sel[i].attrs]]

\* A call returns: its effects reach the sinks and the call becomes last;
\* args are the arguments of a direct call of a helper of utils.go.
ReturnOf(op, w, derr, ret, span, effs, args) ==
  /\ spans' = ApplySpans(spans, effs)
  /\ legacyLatency' = legacyLatency \o Observations(effs, "legacyLatency.Record")
  /\ duration' = duration \o Observations(effs, "duration.Record")
  /\ last' = [op |-> op, w |-> w, derr |-> derr, ret |-> ret, span |-> span,
              effs |-> effs, args |-> args]
  /\ ncalls' = ncalls + 1
  /\ UNCHANGED <<backing, gos>>
  /\ UNCHANGED packageVars

Return(op, w, derr, ret, span, effs) == ReturnOf(op, w, derr, ret, span, effs, <<>>)

----------------------------------------------------------------------------
\* Operation wrappers

\* semconv.NewDBQueryTextAttributes(optInType)(query)
NewDBQueryTextAttributes(optInType, query) ==
  CASE optInType = OTelSemConvStabilityOptInDup ->
         << KeyValue(DBStatementKey, query), KeyValue(DBQueryTextKey, query) >>
    [] optInType = OTelSemConvStabilityOptInStable ->
         << KeyValue(DBQueryTextKey, query) >>
    [] OTHER ->
         << KeyValue(DBStatementKey, query) >>

\* cfg.DBQueryTextAttributes: newConfig builds it for cfg.SemConvStabilityOptIn.
DBQueryTextAttributes(c, query) ==
  NewDBQueryTextAttributes(c.SemConvStabilityOptIn, query)

\* createSpan that does not read DisableQuery.
SpanAttributes_IgnoresDisableQuery(c, method, enableDBStatement, query) ==
  c.Attributes
  \o (IF enableDBStatement THEN DBQueryTextAttributes(c, query) ELSE <<>>)
  \o (IF c.AttributesGetter THEN AttributesGetter(method, query) ELSE <<>>)

\* createSpan that appends the getter's attributes before the query text.
SpanAttributes_GetterFirst(c, method, enableDBStatement, query) ==
  c.Attributes
  \o (IF c.AttributesGetter THEN AttributesGetter(method, query) ELSE <<>>)
  \o (IF enableDBStatement /\ ~c.SpanOptions.DisableQuery
        THEN DBQueryTextAttributes(c, query) ELSE <<>>)

\* The attribute list createSpan hands to the tracer.
SpanAttributes(c, method, enableDBStatement, query) ==
  c.Attributes
  \o (IF enableDBStatement /\ ~c.SpanOptions.DisableQuery
        THEN DBQueryTextAttributes(c, query) ELSE <<>>)
  \o (IF c.AttributesGetter THEN AttributesGetter(method, query) ELSE <<>>)

\* createSpan: the span (numbered span) is started under ctx; the context
\* it returns carries the new span.
createSpan(c, ctx, span, method, enableDBStatement, query) ==
  << EffWith("Start", span, method, query,
             SpanAttributes(c, method, enableDBStatement, query), ctx) >>

\* A wrapper that returns nil whatever the delegate returned.
ReturnedError_Swallowed(derr) == "nil"

\* The value a wrapper returns after "if err != nil { return err }; return nil".
ReturnedError(derr) == IF derr # "nil" THEN derr ELSE "nil"

\* otConnector.Connect: whether the span is created.
ConnectWantsSpan(spanOptions) ==
  ~spanOptions.OmitConnectorConnect /\ filterSpan(spanOptions)

\* Connect that keeps the caller's context for the delegate
\* ("_, span = createSpan(ctx, ...)").
ConnectDelegateCtx_Caller(ctx, span) == ctx

\* otConnector.Connect: the context handed to the delegate's Connect, after
\* "ctx, span = createSpan(ctx, ...)" if the span is created.
ConnectDelegateCtx(ctx, span) == IF span # NoSpan THEN span ELSE ctx

\* otConnector.Connect: the effects of one call, deferred calls in LIFO order
\* (span.End was deferred after onDefer, so it runs first).
ConnectEffs(c, ctx, span, derr) ==
  LET method == MethodConnectorConnect
  IN (IF span # NoSpan THEN createSpan(c, ctx, span, method, FALSE, "") ELSE <<>>)
     \o << EffWith("delegate", NoSpan, method, derr, <<>>, ConnectDelegateCtx(ctx, span)) >>
     \o (IF derr # "nil" THEN CallRecordSpanError(span, c.SpanOptions, derr) ELSE <<>>)
     \o (IF span # NoSpan THEN << Eff("End", span, method, "") >> ELSE <<>>)
     \o recordMetric(c, method, ReturnedError(derr))

Connect(derr) ==
  LET span == IF ConnectWantsSpan(cfg.SpanOptions) THEN Len(spans) + 1 ELSE NoSpan
  IN /\ obj = "otConnector"
     /\ ncalls < MaxCalls
     /\ Return("Connect", 0, derr, ReturnedError(derr), span, ConnectEffs(cfg, CallerCtx(ctxParent), span, derr))
     /\ UNCHANGED <<obj, cfg, ctxParent, rows>>

\* otTx.Commit, otTx.Rollback: whether the span is created.
TxWantsSpan(spanOptions, hasParent) == spanOptions.AllowRoot \/ hasParent

\* otTx.Commit and otTx.Rollback have one body up to the method.
TxEffs(c, ctx, method, span, derr) ==
  (IF span # NoSpan
     THEN << EffWith("Start", span, method, "", c.Attributes, ctx) >> ELSE <<>>)
  \o << Eff("delegate", NoSpan, method, derr) >>
  \o (IF derr # "nil" THEN CallRecordSpanError(span, c.SpanOptions, derr) ELSE <<>>)
  \o (IF span # NoSpan THEN << Eff("End", span, method, "") >> ELSE <<>>)

Commit(derr) ==
  LET span == IF TxWantsSpan(cfg.SpanOptions, ctxParent) THEN Len(spans) + 1 ELSE NoSpan
  IN /\ obj = "otTx"
     /\ ncalls < MaxCalls
     /\ Return("Commit", 0, derr, ReturnedError(derr), span,
               TxEffs(cfg, CallerCtx(ctxParent), MethodTxCommit, span, derr))
     /\ UNCHANGED <<obj, cfg, ctxParent, rows>>

Rollback(derr) ==
  LET span == IF TxWantsSpan(cfg.SpanOptions, ctxParent) THEN Len(spans) + 1 ELSE NoSpan
  IN /\ obj = "otTx"
     /\ ncalls < MaxCalls
     /\ Return("Rollback", 0, derr, ReturnedError(derr), span,
               TxEffs(cfg, CallerCtx(ctxParent), MethodTxRollback, span, derr))
     /\ UNCHANGED <<obj, cfg, ctxParent, rows>>

\* newRows that does not read OmitRows.
RowsWantsSpan_FilterOnly(spanOptions) == filterSpan(spanOptions)

\* newRows: whether the span is created.
RowsWantsSpan(spanOptions) == ~spanOptions.OmitRows /\ filterSpan(spanOptions)

\* newRows: the metric closure is obtained, the span is started.
newRows ==
  LET span == IF RowsWantsSpan(cfg.SpanOptions) THEN Len(spans) + 1 ELSE NoSpan
      effs == IF span # NoSpan
                THEN createSpan(cfg, CallerCtx(ctxParent), span, MethodRows, FALSE, "")
                ELSE <<>>
  IN /\ obj = "otRows"
     /\ ncalls < MaxCalls
     /\ rows' = Append(rows, [span |-> span, nexts |-> 0, closes |-> 0])
     /\ Return("newRows", Len(rows) + 1, "nil", "nil", span, effs)
     /\ UNCHANGED <<obj, cfg, ctxParent>>

\* Next that takes io.EOF for an error.
NextRecordsError_EOFToo(err) == err # "nil"

\* otRows.Next: whether the delegate's error goes to recordSpanError.
NextRecordsError(err) == err # "nil" /\ err # "EOF"

\* Next that adds its event once the delegate has returned.
NextEffs_EventAfterDelegate(c, span, derr) ==
  << Eff("delegate", NoSpan, MethodRows, derr) >>
  \o (IF c.SpanOptions.RowsNext /\ span # NoSpan
        THEN << Eff("AddEvent", span, MethodRows, EventRowsNext) >> ELSE <<>>)
  \o (IF NextRecordsError(derr) THEN CallRecordSpanError(span, c.SpanOptions, derr) ELSE <<>>)

\* Next that ends the span when the delegate reports the end of the data.
NextEffs_EndOnEOF(c, span, derr) ==
  (IF c.SpanOptions.RowsNext /\ span # NoSpan
     THEN << Eff("AddEvent", span, MethodRows, EventRowsNext) >> ELSE <<>>)
  \o << Eff("delegate", NoSpan, MethodRows, derr) >>
  \o (IF NextRecordsError(derr) THEN CallRecordSpanError(span, c.SpanOptions, derr) ELSE <<>>)
  \o (IF derr = "EOF" /\ span # NoSpan THEN << Eff("End", span, MethodRows, "") >> ELSE <<>>)

\* Next that invokes the metric closure with the error it records.
NextEffs_MetricOnError(c, span, derr) ==
  (IF c.SpanOptions.RowsNext /\ span # NoSpan
     THEN << Eff("AddEvent", span, MethodRows, EventRowsNext) >> ELSE <<>>)
  \o << Eff("delegate", NoSpan, MethodRows, derr) >>
  \o (IF NextRecordsError(derr)
        THEN CallRecordSpanError(span, c.SpanOptions, derr) \o recordMetric(c, MethodRows, derr)
        ELSE <<>>)

NextEffs(c, span, derr) ==
  (IF c.SpanOptions.RowsNext /\ span # NoSpan
     THEN << Eff("AddEvent", span, MethodRows, EventRowsNext) >> ELSE <<>>)
  \o << Eff("delegate", NoSpan, MethodRows, derr) >>
  \o (IF NextRecordsError(derr) THEN CallRecordSpanError(span, c.SpanOptions, derr) ELSE <<>>)

\* otRows.Next; database/sql calls it only on rows that are not closed.
RowsNext(w, derr) ==
  /\ obj = "otRows"
  /\ ncalls < MaxCalls
  /\ rows[w].closes = 0
  /\ rows' = [rows EXCEPT ![w].nexts = @ + 1]
  /\ Return("Next", w, derr, derr, rows[w].span, NextEffs(cfg, rows[w].span, derr))
  /\ UNCHANGED <<obj, cfg, ctxParent>>

\* Close whose deferred function invokes the metric closure only when there
\* is a span.
CloseEffs_MetricNeedsSpan(c, span, derr) ==
  << Eff("delegate", NoSpan, MethodRows, derr) >>
  \o (IF derr # "nil" THEN CallRecordSpanError(span, c.SpanOptions, derr) ELSE <<>>)
  \o (IF span # NoSpan
        THEN << Eff("End", span, MethodRows, "") >> \o recordMetric(c, MethodRows, derr)
        ELSE <<>>)

\* Close whose deferred function invokes the metric closure before span.End.
CloseEffs_MetricFirst(c, span, derr) ==
  << Eff("delegate", NoSpan, MethodRows, derr) >>
  \o (IF derr # "nil" THEN CallRecordSpanError(span, c.SpanOptions, derr) ELSE <<>>)
  \o recordMetric(c, MethodRows, derr)
  \o (IF span # NoSpan THEN << Eff("End", span, MethodRows, "") >> ELSE <<>>)

\* otRows.Close: the delegate call, then the deferred function.
CloseEffs(c, span, derr) ==
  << Eff("delegate", NoSpan, MethodRows, derr) >>
  \o (IF derr # "nil" THEN CallRecordSpanError(span, c.SpanOptions, derr) ELSE <<>>)
  \o (IF span # NoSpan THEN << Eff("End", span, MethodRows, "") >> ELSE <<>>)
  \o recordMetric(c, MethodRows, derr)

RowsClose(w, derr) ==
  /\ obj = "otRows"
  /\ ncalls < MaxCalls
  /\ rows[w].closes < MaxClose
  /\ rows' = [rows EXCEPT ![w].closes = @ + 1]
  /\ Return("Close", w, derr, derr, rows[w].span, CloseEffs(cfg, rows[w].span, derr))
  /\ UNCHANGED <<obj, cfg, ctxParent>>

\* recordSpanErrorDeferred(span, opts, &err): recordSpanError applied to a
\* span that has just been started (withSpan) or to a nil span.
recordSpanErrorDeferred(withSpan, err) ==
  LET span == IF withSpan THEN Len(spans) + 1 ELSE NoSpan
      effs == (IF withSpan
                 THEN << EffWith("Start", span, "test", "", <<>>, CallerCtx(ctxParent)) >>
                 ELSE <<>>)
              \o CallRecordSpanError(span, cfg.SpanOptions, err)
  IN /\ obj = "utils"
     /\ ncalls < MaxCalls
     /\ Return("recordSpanError", 0, err, err, span, effs)
     /\ UNCHANGED <<obj, cfg, ctxParent, rows>>

\* recordMetric(ctx, cfg.Instruments, cfg, method, query, args)(err): the
\* closure is obtained and invoked with err.
RecordMetricCall(method, err) ==
  /\ obj = "utils"
  /\ ncalls < MaxCalls
  /\ ReturnOf("recordMetric", 0, err, err, NoSpan, recordMetric(cfg, method, err),
              [method |-> method, err |-> err])
  /\ UNCHANGED <<obj, cfg, ctxParent, rows>>

\* createSpan(ctx, cfg, method, enableDBStatement, query, nil)
CreateSpanCall(method, enableDBStatement, query) ==
  LET span == Len(spans) + 1
  IN /\ obj = "utils"
     /\ ncalls < MaxCalls
     /\ ReturnOf("createSpan", 0, "nil", "nil", span,
                 createSpan(cfg, CallerCtx(ctxParent), span, method, enableDBStatement, query),
                 [method |-> method, enableDBStatement |-> enableDBStatement,
                  query |-> query])
     /\ UNCHANGED <<obj, cfg, ctxParent, rows>>

----------------------------------------------------------------------------

NoCall ==
  [op |-> "none", w |-> 0, derr |-> "nil", ret |-> "nil", span |-> NoSpan,
   effs |-> <<>>, args |-> <<>>]

\* The configurations a wrapper is driven under: every combination of the
\* span and measurement options its code reads, the others at their zero
\* value; the attribute options are exercised by SpecMetric and SpecSpan.
Reads(o, c) ==
  LET so == c.SpanOptions
      metrics == o \in {"otConnector", "otRows"}
  IN /\ (so.OmitConnectorConnect => o = "otConnector")
     /\ (so.OmitRows => o = "otRows")
     /\ (so.RowsNext => o = "otRows")
     /\ (so.AllowRoot => o = "otTx")
     /\ (so.SpanFilter # "nil" => o # "utils")
     /\ ~so.DisableQuery
     /\ c.Attributes = <<>>
     /\ ~c.AttributesGetter
     /\ ~c.InstrumentAttributesGetter
     /\ ~c.InstrumentErrorAttributesGetter
     /\ (c.DisableSkipErrMeasurement => metrics)
     /\ (c.SemConvStabilityOptIn # OTelSemConvStabilityOptInNone => metrics)

Init ==
  /\ obj \in Wrappers
  /\ cfg \in {c \in config : Reads(obj, c)}
  /\ ctxParent \in BOOLEAN
  /\ spans = <<>>
  /\ legacyLatency = <<>>
  /\ duration = <<>>
  /\ rows = <<>>
  /\ ncalls = 0
  /\ last = NoCall
  /\ backing = <<>>
  /\ gos = <<>>
  /\ NoPackageState

Next ==
  \/ \E derr \in DelegateErrors : Connect(derr)
  \/ \E derr \in DelegateErrors : Commit(derr)
  \/ \E derr \in DelegateErrors : Rollback(derr)
  \/ newRows
  \/ \E w \in 1..Len(rows), derr \in NextErrors : RowsNext(w, derr)
  \/ \E w \in 1..Len(rows), derr \in DelegateErrors : RowsClose(w, derr)
  \/ \E withSpan \in BOOLEAN, err \in Errors : recordSpanErrorDeferred(withSpan, err)

Spec == Init /\ [][Next]_vars

----------------------------------------------------------------------------
\* Direct calls of the metric closure, under every attribute configuration.

ReadsMetric(c) ==
  LET so == c.SpanOptions
  IN /\ so = [ OmitConnectorConnect |-> FALSE, OmitRows |-> FALSE, RowsNext |-> FALSE,
               DisableErrSkip |-> FALSE, RecordError |-> "nil", AllowRoot |-> FALSE,
               SpanFilter |-> "nil", DisableQuery |-> FALSE ]
     /\ ~c.AttributesGetter

InitMetric ==
  /\ obj = "utils"
  /\ cfg \in {c \in config : ReadsMetric(c)}
  /\ ctxParent = FALSE
  /\ spans = <<>>
  /\ legacyLatency = <<>>
  /\ duration = <<>>
  /\ rows = <<>>
  /\ ncalls = 0
  /\ last = NoCall
  /\ backing = <<>>
  /\ gos = <<>>
  /\ NoPackageState

NextMetric ==
  \E method \in MetricMethods, err \in Errors : RecordMetricCall(method, err)

SpecMetric == InitMetric /\ [][NextMetric]_vars

----------------------------------------------------------------------------
\* Direct calls of createSpan, under every attribute configuration.

ReadsSpan(c) ==
  LET so == c.SpanOptions
  IN /\ [so EXCEPT !.DisableQuery = FALSE] =
          [ OmitConnectorConnect |-> FALSE, OmitRows |-> FALSE, RowsNext |-> FALSE,
            DisableErrSkip |-> FALSE, RecordError |-> "nil", AllowRoot |-> FALSE,
            SpanFilter |-> "nil", DisableQuery |-> FALSE ]
     /\ ~c.InstrumentAttributesGetter
     /\ ~c.InstrumentErrorAttributesGetter
     /\ ~c.DisableSkipErrMeasurement

InitSpan ==
  /\ obj = "utils"
  /\ cfg \in {c \in config : ReadsSpan(c)}
  /\ ctxParent \in BOOLEAN
  /\ spans = <<>>
  /\ legacyLatency = <<>>
  /\ duration = <<>>
  /\ rows = <<>>
  /\ ncalls = 0
  /\ last = NoCall
  /\ backing = <<>>
  /\ gos = <<>>
  /\ NoPackageState

NextSpan ==
  \E method \in SpanMethods, enableDBStatement \in BOOLEAN, query \in Queries :
    CreateSpanCall(method, enableDBStatement, query)

SpecSpan == InitSpan /\ [][NextSpan]_vars

----------------------------------------------------------------------------
\* Concurrent calls of createSpan and of the metric closure on one config.
\*
\* cfg.Attributes is a slice: a length and a backing array (backing) with
\* Len(backing) - Len(cfg.Attributes) cells of spare capacity.  A slice
\* value held by a goroutine either still points into backing (shared, with
\* its own length) or, once append had to reallocate, into an array no other
\* goroutine can reach (elems).  Every goroutine runs the statements of its
\* call one at a time, interleaved with the others.

Goroutines == {1, 2}

\* The zero attribute.KeyValue of an unwritten cell.
ZeroKeyValue == KeyValue("", "")

SharedSlice(n) == [shared |-> TRUE, len |-> n, elems |-> <<>>]
OwnSlice(elems) == [shared |-> FALSE, len |-> Len(elems), elems |-> elems]

\* The elements of a slice.
ReadSlice(arr, sl) == IF sl.shared THEN SubSeq(arr, 1, sl.len) ELSE sl.elems

\* append(sl, xs...): the slice it returns.  With enough capacity the
\* result shares the array of sl, otherwise the elements are copied to a new
\* array.
AppendSlice(arr, sl, xs) ==
  IF xs = <<>> THEN sl
  ELSE IF sl.shared
    THEN IF sl.len + Len(xs) <= Len(arr)
           THEN SharedSlice(sl.len + Len(xs))
           ELSE OwnSlice(SubSeq(arr, 1, sl.len) \o xs)
    ELSE OwnSlice(sl.elems \o xs)

\* append(sl, xs...): what it leaves in the backing array of cfg.Attributes.
AppendWrites(arr, sl, xs) ==
  IF sl.shared /\ sl.len + Len(xs) <= Len(arr)
    THEN [i \in 1..Len(arr) |->
            IF i > sl.len /\ i <= sl.len + Len(xs) THEN xs[i - sl.len] ELSE arr[i]]
    ELSE arr

\* One statement of a call: reg is the variable it assigns or reads
\* ("attributes": the variable of recordMetric's closure and createSpan's
\* attrs; "local": the attributes parameter of a recorder).
Ins(i, reg, xs) == [i |-> i, reg |-> reg, xs |-> xs]

\* recordLegacyLatency(ctx, instruments, cfg, duration, attributes, method, err)
ProgramRecordLegacyLatency(c, method, err) ==
  LET status == IF err # "nil"
                  THEN IF c.DisableSkipErrMeasurement /\ IsErrSkip(err) THEN "ok" ELSE "error"
                  ELSE "ok"
  IN << Ins("enter", "local", <<>>),
        Ins("append", "local", << KeyValue(queryMethodKey, method) >>),
        Ins("append", "local", << KeyValue(queryStatusKey, status) >>),
        Ins("hand", "local", <<>>) >>

\* recordDuration(ctx, instruments, cfg, duration, attributes, method, err)
ProgramRecordDuration(c, method, err) ==
  << Ins("enter", "local", <<>>),
     Ins("append", "local", << KeyValue(DBOperationNameKey, method) >>) >>
  \o (IF err # "nil" /\ ~(c.DisableSkipErrMeasurement /\ IsErrSkip(err))
        THEN << Ins("append", "local", ErrorTypeAttributes(err)) >> ELSE <<>>)
  \o << Ins("hand", "local", <<>>) >>

\* The closure returned by recordMetric.
ProgramRecordMetric(c, method, err) ==
  << Ins("load", "attributes", <<>>) >>
  \o (IF c.InstrumentAttributesGetter
        THEN << Ins("append", "attributes", InstrumentAttributesGetter(method, "")) >>
        ELSE <<>>)
  \o (IF err # "nil" /\ c.InstrumentErrorAttributesGetter
        THEN << Ins("append", "attributes", InstrumentErrorAttributesGetter(err)) >>
        ELSE <<>>)
  \o ( CASE c.SemConvStabilityOptIn = OTelSemConvStabilityOptInStable ->
              ProgramRecordDuration(c, method, err)
         [] c.SemConvStabilityOptIn = OTelSemConvStabilityOptInDup ->
              ProgramRecordLegacyLatency(c, method, err)
              \o ProgramRecordDuration(c, method, err)
         [] c.SemConvStabilityOptIn = OTelSemConvStabilityOptInNone ->
              ProgramRecordLegacyLatency(c, method, err)
         [] OTHER -> <<>> )

\* createSpan(ctx, cfg, method, enableDBStatement, query, args)
ProgramCreateSpan(c, method, enableDBStatement, query) ==
  << Ins("load", "attributes", <<>>) >>
  \o (IF enableDBStatement /\ ~c.SpanOptions.DisableQuery
        THEN << Ins("append", "attributes", DBQueryTextAttributes(c, query)) >> ELSE <<>>)
  \o (IF c.AttributesGetter
        THEN << Ins("append", "attributes", AttributesGetter(method, query)) >> ELSE <<>>)
  \o << Ins("hand", "attributes", <<>>) >>

\* The calls the goroutines make: the two operations, each goroutine with its
\* own method and query.
Calls(g) ==
  LET method == IF g = 1 THEN MethodConnQuery ELSE MethodStmtExec
      query == IF g = 1 THEN "SELECT 1" ELSE "example query"
  IN [ op : {"createSpan", "recordMetric"}, method : {method}, query : {query},
       enableDBStatement : {TRUE}, err : {"nil", "other"} ]

Program(c, call) ==
  IF call.op = "createSpan"
    THEN ProgramCreateSpan(c, call.method, call.enableDBStatement, call.query)
    ELSE ProgramRecordMetric(c, call.method, call.err)

Goroutine(c, call) ==
  [ call |-> call, prog |-> Program(c, call), pc |-> 1,
    attributes |-> OwnSlice(<<>>), local |-> OwnSlice(<<>>), handed |-> <<>> ]

\* The statement goroutine g is at.
At(g, i) ==
  /\ gos[g].pc <= Len(gos[g].prog)
  /\ gos[g].prog[gos[g].pc].i = i

\* attributes := cfg.Attributes
GoLoad(g) ==
  /\ At(g, "load")
  /\ gos' = [gos EXCEPT ![g].attributes = SharedSlice(Len(cfg.Attributes)),
                         ![g].pc = @ + 1]
  /\ UNCHANGED backing

\* The call of a recorder: its parameter is the caller's slice value.
GoEnter(g) ==
  /\ At(g, "enter")
  /\ gos' = [gos EXCEPT ![g].local = gos[g].attributes, ![g].pc = @ + 1]
  /\ UNCHANGED backing

\* v = append(v, xs...)
GoAppend(g) ==
  LET ins == gos[g].prog[gos[g].pc]
      sl == gos[g][ins.reg]
  IN /\ At(g, "append")
     /\ backing' = AppendWrites(backing, sl, ins.xs)
     /\ gos' = [gos EXCEPT ![g][ins.reg] = AppendSlice(backing, sl, ins.xs),
                            ![g].pc = @ + 1]

\* trace.WithAttributes(v...), metric.WithAttributes(v...): the elements
\* of the slice are copied for the tracer or the meter.
GoHand(g) ==
  LET ins == gos[g].prog[gos[g].pc]
  IN /\ At(g, "hand")
     /\ gos' = [gos EXCEPT ![g].handed = Append(@, ReadSlice(backing, gos[g][ins.reg])),
                            ![g].pc = @ + 1]
     /\ UNCHANGED backing

\* The configurations of the concurrent calls: the options the two
\* functions read for their attribute lists.
ReadsShared(c) ==
  LET so == c.SpanOptions
  IN /\ so = [ OmitConnectorConnect |-> FALSE, OmitRows |-> FALSE, RowsNext |-> FALSE,
               DisableErrSkip |-> FALSE, RecordError |-> "nil", AllowRoot |-> FALSE,
               SpanFilter |-> "nil", DisableQuery |-> FALSE ]
     /\ ~c.DisableSkipErrMeasurement
     /\ Len(c.Attributes) <= 1

InitShared ==
  /\ obj = "utils"
  /\ cfg \in {c \in config : ReadsShared(c)}
  /\ ctxParent = FALSE
  /\ spans = <<>>
  /\ legacyLatency = <<>>
  /\ duration = <<>>
  /\ rows = <<>>
  /\ ncalls = 0
  /\ last = NoCall
  /\ \E spare \in 0..MaxSpare :
       backing = cfg.Attributes \o [i \in 1..spare |-> ZeroKeyValue]
  /\ \E c1 \in Calls(1), c2 \in Calls(2) :
       gos = << Goroutine(cfg, c1), Goroutine(cfg, c2) >>
  /\ NoPackageState

NextShared ==
  \/ \E g \in Goroutines : GoLoad(g) /\ UNCHANGED <<wrapperVars, packageVars>>
  \/ \E g \in Goroutines : GoEnter(g) /\ UNCHANGED <<wrapperVars, packageVars>>
  \/ \E g \in Goroutines : GoAppend(g) /\ UNCHANGED <<wrapperVars, packageVars>>
  \/ \E g \in Goroutines : GoHand(g) /\ UNCHANGED <<wrapperVars, packageVars>>

SpecShared == InitShared /\ [][NextShared]_vars

----------------------------------------------------------------------------
\* Options applied by newConfig.

\* The zero config newConfig starts from (no option applied yet).
ZeroConfig ==
  [ SpanOptions |->
      [ OmitConnectorConnect |-> FALSE, OmitRows |-> FALSE, RowsNext |-> FALSE,
        DisableErrSkip |-> FALSE, RecordError |-> "nil", AllowRoot |-> FALSE,
        SpanFilter |-> "nil", DisableQuery |-> FALSE ],
    Attributes |-> <<>>,
    AttributesGetter |-> FALSE,
    InstrumentAttributesGetter |-> FALSE,
    InstrumentErrorAttributesGetter |-> FALSE,
    DisableSkipErrMeasurement |-> FALSE,
    SemConvStabilityOptIn |-> OTelSemConvStabilityOptInNone ]

\* The argument lists WithAttributes is called with: none, one or two
\* attributes, and one repeating a key with another value.
OptionAttributes ==
  { <<>>,
    << KeyValue("key1", "value1") >>,
    << KeyValue("key2", "value2") >>,
    << KeyValue("key1", "value1"), KeyValue("key2", "value2") >>,
    << KeyValue("key1", "value2") >> }

\* WithAttributes(attributes...) applied to c.
WithAttributes(c, attributes) == [c EXCEPT !.Attributes = attributes]

\* opt.Apply(&cfg) for the next option of newConfig's loop.
ApplyWithAttributes(attributes) ==
  /\ obj = "config"
  /\ ncalls < MaxCalls
  /\ cfg' = WithAttributes(cfg, attributes)
  /\ options' = Append(options, attributes)
  /\ ncalls' = ncalls + 1
  /\ UNCHANGED <<obj, ctxParent, spans, legacyLatency, duration, rows, last>>
  /\ UNCHANGED <<backing, gos, drivers, registerLock, propagator, carrier, now, closure, commenter>>

InitOptions ==
  /\ obj = "config"
  /\ cfg = ZeroConfig
  /\ ctxParent = FALSE
  /\ spans = <<>>
  /\ legacyLatency = <<>>
  /\ duration = <<>>
  /\ rows = <<>>
  /\ ncalls = 0
  /\ last = NoCall
  /\ backing = <<>>
  /\ gos = <<>>
  /\ NoPackageState

NextOptions == \E attributes \in OptionAttributes : ApplyWithAttributes(attributes)

SpecOptions == InitOptions /\ [][NextOptions]_vars

----------------------------------------------------------------------------
\* Register (sql.go): goroutines calling Register, each call one statement
\* at a time.

testDriverName == "test-driver"

\* The driver names Register is called with: a registered driver and one
\* database/sql does not know.
DriverNames == {testDriverName, "unknown-driver"}

\* driverName + "-otelsql-" + strconv.FormatInt(int64(i), 10)
RegName(driverName, i) == driverName \o "-otelsql-" \o ToString(i)

\* A loop over sql.Drivers() that never sets found.
Found_Never(regName, names) == FALSE

\* The inner loop over sql.Drivers().
Found(regName, names) == \E name \in names : name = regName

\* A goroutine between two Register calls.
Registrant == [pc |-> "idle", driverName |-> "", i |-> 0, rets |-> <<>>]

\* Whether registerLock.Lock() can return.
CanLock_Always(lock) == TRUE

CanLock(lock) == lock = 0

\* Register is called; sql.Open fails for a driver that is not registered
\* and the call returns its error.
RegisterOpen(g, driverName) ==
  /\ gos[g].pc = "idle"
  /\ Len(gos[g].rets) < MaxRegister
  /\ IF driverName \in drivers
       THEN gos' = [gos EXCEPT ![g].pc = "lock", ![g].driverName = driverName]
       ELSE gos' = [gos EXCEPT ![g].rets = Append(@, [name |-> "", err |-> "open"])]
  /\ UNCHANGED <<drivers, registerLock>>

\* registerLock.Lock()
RegisterLock(g) ==
  /\ gos[g].pc = "lock"
  /\ CanLock(registerLock)
  /\ registerLock' = g
  /\ gos' = [gos EXCEPT ![g].pc = "scan", ![g].i = 0]
  /\ UNCHANGED drivers

\* One turn of the loop over the slots, up to the decision: the slot is
\* taken (next slot, or the final error with the deferred Unlock), or free.
RegisterScan(g) ==
  LET regName == RegName(gos[g].driverName, gos[g].i)
  IN /\ gos[g].pc = "scan"
     /\ IF gos[g].i >= maxDriverSlot
          THEN /\ gos' = [gos EXCEPT ![g].pc = "idle",
                                     ![g].rets = Append(@, [name |-> "", err |-> "slots"])]
               /\ registerLock' = 0
          ELSE /\ gos' = IF Found(regName, drivers)
                            THEN [gos EXCEPT ![g].i = @ + 1]
                            ELSE [gos EXCEPT ![g].pc = "register"]
               /\ UNCHANGED registerLock
     /\ UNCHANGED drivers

\* sql.Register(regName, ...), which panics when the name is registered
\* already; return regName; the deferred Unlock.
RegisterDriver(g) ==
  LET regName == RegName(gos[g].driverName, gos[g].i)
  IN /\ gos[g].pc = "register"
     /\ IF regName \in drivers
          THEN /\ gos' = [gos EXCEPT ![g].pc = "idle",
                                     ![g].rets = Append(@, [name |-> "", err |-> "panic"])]
               /\ UNCHANGED drivers
          ELSE /\ gos' = [gos EXCEPT ![g].pc = "idle",
                                     ![g].rets = Append(@, [name |-> regName, err |-> "nil"])]
               /\ drivers' = drivers \cup {regName}
     /\ registerLock' = 0

\* The wrapped names registered before the first Register call of the
\* behaviour (by earlier calls, or by sql.Register directly).
SlotNames == {RegName(testDriverName, i) : i \in 0..(maxDriverSlot - 1)}

InitRegister ==
  /\ obj = "Register"
  /\ cfg = ZeroConfig
  /\ ctxParent = FALSE
  /\ spans = <<>>
  /\ legacyLatency = <<>>
  /\ duration = <<>>
  /\ rows = <<>>
  /\ ncalls = 0
  /\ last = NoCall
  /\ backing = <<>>
  /\ gos = [g \in Goroutines |-> Registrant]
  /\ options = <<>>
  /\ \E taken \in SUBSET SlotNames : drivers = {testDriverName} \cup taken
  /\ registerLock = 0
  /\ propagator = <<>>
  /\ carrier = <<>>
  /\ now = 0
  /\ closure = <<>>
  /\ commenter = <<>>

NextRegister ==
  \/ \E g \in Goroutines, driverName \in DriverNames :
       RegisterOpen(g, driverName)
       /\ UNCHANGED <<wrapperVars, backing, options, propagator, carrier, now, closure, commenter>>
  \/ \E g \in Goroutines :
       RegisterLock(g)
       /\ UNCHANGED <<wrapperVars, backing, options, propagator, carrier, now, closure, commenter>>
  \/ \E g \in Goroutines :
       RegisterScan(g)
       /\ UNCHANGED <<wrapperVars, backing, options, propagator, carrier, now, closure, commenter>>
  \/ \E g \in Goroutines :
       RegisterDriver(g)
       /\ UNCHANGED <<wrapperVars, backing, options, propagator, carrier, now, closure, commenter>>

SpecRegister == InitRegister /\ [][NextRegister]_vars

----------------------------------------------------------------------------
\* The SQL commenter: withComment, as the specification describes it and
\* TestCommenter_WithComment exercises it.

\* The contexts of the calls: what they carry for the propagators to
\* serialize ("" for nothing).
Contexts ==
  { [traceparent |-> "", tracestate |-> "", baggage |-> ""],
    [traceparent |-> "00-a3d3-683e-01", tracestate |-> "", baggage |-> ""],
    [traceparent |-> "00-a3d3-683e-01", tracestate |-> "rojo=00f0,congo=t61r",
     baggage |-> ""],
    [traceparent |-> "", tracestate |-> "", baggage |-> "foo=bar"],
    [traceparent |-> "00-a3d3-683e-01", tracestate |-> "rojo=00f0,congo=t61r",
     baggage |-> "foo=bar"] }

CommentQueries == {"foo", "SELECT 1", ""}

\* The propagators a composite propagator is built from.
Propagators == {"TraceContext", "Baggage"}

\* The fields the composite propagator sets in the carrier for ctx, in the
\* order the comment lists them.
InjectFields(propagators, ctx) ==
  (IF "TraceContext" \in propagators /\ ctx.traceparent # "" /\ ctx.tracestate # ""
     THEN <<KeyValue("tracestate", ctx.tracestate)>> ELSE <<>>)
  \o (IF "TraceContext" \in propagators /\ ctx.traceparent # ""
        THEN <<KeyValue("traceparent", ctx.traceparent)>> ELSE <<>>)
  \o (IF "Baggage" \in propagators /\ ctx.baggage # ""
        THEN <<KeyValue("baggage", ctx.baggage)>> ELSE <<>>)

\* URL-encoding of a key or value, character by character.
RECURSIVE QueryEscape(_)
QueryEscape(str) ==
  IF str = "" THEN ""
  ELSE LET ch == SubSeq(str, 1, 1)
           rest == QueryEscape(SubSeq(str, 2, Len(str)))
       IN CASE ch = "=" -> "%3D" \o rest
            [] ch = "," -> "%2C" \o rest
            [] ch = " " -> "+" \o rest
            [] OTHER -> ch \o rest

\* key1='value1',key2='value2'
RECURSIVE CommentBody(_)
CommentBody(fields) ==
  IF fields = <<>> THEN ""
  ELSE QueryEscape(fields[1].key) \o "='" \o QueryEscape(fields[1].value) \o "'"
       \o (IF Len(fields) > 1 THEN "," ELSE "")
       \o CommentBody(Tail(fields))

\* A withComment that appends the comment block whatever the carrier holds.
withComment_EmptyComment(c, ctx, query) ==
  IF ~c.enabled THEN query
  ELSE query \o " /*" \o CommentBody(InjectFields(c.propagator, ctx)) \o "*/"

withComment(c, ctx, query) ==
  IF ~c.enabled THEN query
  ELSE LET fields == InjectFields(c.propagator, ctx)
       IN IF fields = <<>> THEN query
          ELSE query \o " /*" \o CommentBody(fields) \o "*/"

\* c.withComment(ctx, query); the carrier is what the propagator injected.
WithCommentCall(ctx, query) ==
  /\ obj = "commenter"
  /\ ncalls < MaxCalls
  /\ last' = [op |-> "withComment", w |-> NoSpan, derr |-> "nil",
              ret |-> withComment(commenter, ctx, query), span |-> NoSpan,
              effs |-> <<>>, args |-> <<ctx, query>>]
  /\ carrier' = IF commenter.enabled THEN InjectFields(commenter.propagator, ctx)
                ELSE <<>>
  /\ ncalls' = ncalls + 1
  /\ UNCHANGED <<obj, cfg, ctxParent, spans, legacyLatency, duration, rows>>
  /\ UNCHANGED <<backing, gos, options, drivers, registerLock, propagator, now,
                 closure, commenter>>

\* newCommenter(enabled) with a composite propagator.
InitComment ==
  /\ obj = "commenter"
  /\ cfg = ZeroConfig
  /\ ctxParent = FALSE
  /\ spans = <<>>
  /\ legacyLatency = <<>>
  /\ duration = <<>>
  /\ rows = <<>>
  /\ ncalls = 0
  /\ last = NoCall
  /\ backing = <<>>
  /\ gos = <<>>
  /\ options = <<>>
  /\ drivers = {}
  /\ registerLock = 0
  /\ propagator = <<>>
  /\ carrier = <<>>
  /\ now = 0
  /\ closure = <<>>
  /\ commenter \in [enabled : BOOLEAN, propagator : SUBSET Propagators]

NextComment ==
  \E ctx \in Contexts, query \in CommentQueries : WithCommentCall(ctx, query)

SpecComment == InitComment /\ [][NextComment]_vars

----------------------------------------------------------------------------
\* The error classifier (internal/semconv), called directly.

\* The errors classified: nil, the three driver sentinels, errors wrapping
\* them, a join of two of them, io.EOF, an errors.New error, an error
\* wrapping it, a struct error, a pointer error and a named non-struct one.
ClassifiedErrors ==
  {"nil", "ErrBadConn", "ErrSkip", "ErrRemoveArgument", "wrapErrBadConn",
   "wrapErrSkip", "wrapErrRemoveArgument", "joinErrSkipErrBadConn", "EOF",
   "other", "wrapOther", "customError", "ptrOpError", "DeadlineExceeded"}

\* NewErrorTypeAttribute(optInType)(err)
NewErrorTypeAttribute(optInType, err) ==
  IF optInType = OTelSemConvStabilityOptInNone THEN <<>>
  ELSE ErrorTypeAttributes(err)

ClassifierReturn(op, optInType, err, ret) ==
  /\ obj = "semconv"
  /\ ncalls < MaxCalls
  /\ last' = [op |-> op, w |-> NoSpan, derr |-> err, ret |-> ret, span |-> NoSpan,
              effs |-> <<>>, args |-> <<optInType>>]
  /\ ncalls' = ncalls + 1
  /\ UNCHANGED <<obj, cfg, ctxParent, spans, legacyLatency, duration, rows>>
  /\ UNCHANGED <<backing, gos>>
  /\ UNCHANGED packageVars

\* ErrorTypeAttributes(err)
ErrorTypeAttributesCall(err) ==
  ClassifierReturn("ErrorTypeAttributes", OTelSemConvStabilityOptInNone, err,
                   ErrorTypeAttributes(err))

NewErrorTypeAttributeCall(optInType, err) ==
  ClassifierReturn("NewErrorTypeAttribute", optInType, err,
                   NewErrorTypeAttribute(optInType, err))

InitErrorType ==
  /\ obj = "semconv"
  /\ cfg = ZeroConfig
  /\ ctxParent = FALSE
  /\ spans = <<>>
  /\ legacyLatency = <<>>
  /\ duration = <<>>
  /\ rows = <<>>
  /\ ncalls = 0
  /\ last = NoCall
  /\ backing = <<>>
  /\ gos = <<>>
  /\ NoPackageState

NextErrorType ==
  \/ \E err \in ClassifiedErrors : ErrorTypeAttributesCall(err)
  \/ \E optInType \in {OTelSemConvStabilityOptInNone, OTelSemConvStabilityOptInDup,
                        OTelSemConvStabilityOptInStable},
        err \in ClassifiedErrors :
       NewErrorTypeAttributeCall(optInType, err)

SpecErrorType == InitErrorType /\ [][NextErrorType]_vars

----------------------------------------------------------------------------
\* The clock of recordMetric: timeNow() is read when the closure is created
\* and when it is invoked.  Time is in milliseconds; a float64 is modelled
\* by the rational it stands for, as a fraction in lowest terms.

RECURSIVE GCD(_, _)
GCD(a, b) == IF b = 0 THEN a ELSE GCD(b, a % b)

Rat(num, den) ==
  IF num = 0 THEN [num |-> 0, den |-> 1]
  ELSE [num |-> num \div GCD(num, den), den |-> den \div GCD(num, den)]

\* x * 1eN, for a power of ten.
RatMul(x, powerOfTen) ==
  LET g == GCD(powerOfTen, x.den)
  IN Rat(x.num * (powerOfTen \div g), x.den \div g)

\* time.Duration.Nanoseconds() of a number of milliseconds
Nanoseconds(ms) == ms * 1000000

\* A duration measured from the invocation on.
MeasuredDuration_FromInvocation(startTime, endTime) == Rat(0, 1)

\* float64(endTime.Sub(startTime).Nanoseconds()) / 1e9
MeasuredDuration(startTime, endTime) ==
  Rat(Nanoseconds(endTime - startTime), 1000000000)

\* instruments.legacyLatency.Record(ctx, duration*1e3, ...)
LegacyValue(d) == RatMul(d, 1000)

\* instruments.duration.Record(ctx, duration, ...)
DurationValue(d) == d

\* The steps the clock makes between two reads.
Ticks == {250, 1000}

WithValue(observations, value) ==
  [i \in 1..Len(observations) |->
     [method |-> observations[i].method, tag |-> observations[i].tag,
      attrs |-> observations[i].attrs, value |-> value]]

\* recordMetric is called: startTime := timeNow(), the closure is returned.
ClockRecordMetric(method) ==
  /\ obj = "clock"
  /\ ncalls < MaxClosures
  /\ closure' = Append(closure, [method |-> method, startTime |-> now])
  /\ ncalls' = ncalls + 1
  /\ UNCHANGED <<obj, cfg, ctxParent, spans, legacyLatency, duration, rows, last>>
  /\ UNCHANGED <<backing, gos, options, drivers, registerLock, propagator, carrier,
                 now, commenter>>

\* Time passes.
ClockTick(d) ==
  /\ obj = "clock"
  /\ now + d <= MaxNow
  /\ now' = now + d
  /\ UNCHANGED wrapperVars
  /\ UNCHANGED <<backing, gos, options, drivers, registerLock, propagator, carrier,
                 closure, commenter>>

\* The closure k is invoked with err: endTime := timeNow(), the duration is
\* computed once and handed to the recorders of the mode.
ClockInvoke(k, err) ==
  /\ obj = "clock"
  /\ k \in 1..Len(closure)
  /\ LET method == closure[k].method
         d == MeasuredDuration(closure[k].startTime, now)
         effs == recordMetric(cfg, method, err)
         legacy == WithValue(Observations(effs, "legacyLatency.Record"), LegacyValue(d))
         stable == WithValue(Observations(effs, "duration.Record"), DurationValue(d))
     IN /\ legacyLatency' = legacyLatency \o legacy
        /\ duration' = duration \o stable
        /\ last' = [op |-> "closure", w |-> NoSpan, derr |-> err,
                    ret |-> [legacy |-> legacy, stable |-> stable], span |-> NoSpan,
                    effs |-> effs, args |-> <<closure[k].startTime, now>>]
  /\ closure' = [i \in 1..(Len(closure) - 1) |->
                   IF i < k THEN closure[i] ELSE closure[i + 1]]
  /\ UNCHANGED <<obj, cfg, ctxParent, spans, rows, ncalls>>
  /\ UNCHANGED <<backing, gos, options, drivers, registerLock, propagator, carrier,
                 now, commenter>>

InitClock ==
  /\ obj = "clock"
  /\ \E optInType \in {OTelSemConvStabilityOptInNone, OTelSemConvStabilityOptInDup,
                        OTelSemConvStabilityOptInStable} :
       cfg = [ZeroConfig EXCEPT !.SemConvStabilityOptIn = optInType]
  /\ ctxParent = FALSE
  /\ spans = <<>>
  /\ legacyLatency = <<>>
  /\ duration = <<>>
  /\ rows = <<>>
  /\ ncalls = 0
  /\ last = NoCall
  /\ backing = <<>>
  /\ gos = <<>>
  /\ NoPackageState

NextClock ==
  \/ \E method \in {MethodConnQuery} : ClockRecordMetric(method)
  \/ \E d \in Ticks : ClockTick(d)
  \/ \E k \in 1..MaxClosures, err \in {"nil", "other"} : ClockInvoke(k, err)

SpecClock == InitClock /\ [][NextClock]_vars

----------------------------------------------------------------------------
\* TextAttributesPropagator (attributes_propagator.go).  A map is a function
\* on its key set; the variable carrier is the carrier of the last call as
\* the call left it.

AttributeKeys == {"service.name", "k1"}
CarrierKeys == {"k1", "traceparent"}
MapValues == {"v1", "v2"}

\* The maps with keys among keys.
Maps(keys) == UNION {[ks -> MapValues] : ks \in SUBSET keys}

\* The orders a range over the keys of a map can take.
KeyOrders(m) ==
  {seq \in [1..Cardinality(DOMAIN m) -> DOMAIN m] :
     \A i, j \in 1..Cardinality(DOMAIN m) : i # j => seq[i] # seq[j]}

\* Inject: carrier.Set(k, v) for every pair of p.Attributes.
Inject(attributes, c) ==
  [k \in DOMAIN c \cup DOMAIN attributes |->
     IF k \in DOMAIN attributes THEN attributes[k] ELSE c[k]]

\* An Extract that stores every key of the carrier.
Extract_EveryKey(attributes, c) ==
  [k \in DOMAIN attributes \cup DOMAIN c |->
     IF k \in DOMAIN c THEN c[k] ELSE attributes[k]]

\* Extract: p.Attributes[k] = carrier.Get(k) for the carrier's keys that
\* p.Attributes has.
Extract(attributes, c) ==
  [k \in DOMAIN attributes |-> IF k \in DOMAIN c THEN c[k] ELSE attributes[k]]

PropagatorReturn(op, ctx, ret, attributes, c) ==
  /\ obj = "TextAttributesPropagator"
  /\ ncalls < MaxCalls
  /\ propagator' = attributes
  /\ carrier' = c
  /\ last' = [op |-> op, w |-> NoSpan, derr |-> "nil", ret |-> ret, span |-> NoSpan,
              effs |-> <<>>, args |-> <<ctx>>]
  /\ ncalls' = ncalls + 1
  /\ UNCHANGED <<obj, cfg, ctxParent, spans, legacyLatency, duration, rows>>
  /\ UNCHANGED <<backing, gos, options, drivers, registerLock, now, closure, commenter>>

\* p.Inject(ctx, carrier)
InjectCall(ctx, c) ==
  PropagatorReturn("Inject", ctx, NoSpan, propagator, Inject(propagator, c))

\* p.Extract(ctx, carrier): the map is shared by the copies of p.
ExtractCall(ctx, c) ==
  PropagatorReturn("Extract", ctx, ctx, Extract(propagator, c), c)

\* p.Fields(): the keys in the order the range visits them.
FieldsCall(keys) ==
  PropagatorReturn("Fields", NoSpan, keys, propagator, carrier)

InitPropagator ==
  /\ obj = "TextAttributesPropagator"
  /\ cfg = ZeroConfig
  /\ ctxParent = FALSE
  /\ spans = <<>>
  /\ legacyLatency = <<>>
  /\ duration = <<>>
  /\ rows = <<>>
  /\ ncalls = 0
  /\ last = NoCall
  /\ backing = <<>>
  /\ gos = <<>>
  /\ options = <<>>
  /\ drivers = {}
  /\ registerLock = 0
  /\ propagator \in Maps(AttributeKeys)
  /\ carrier = <<>>
  /\ now = 0
  /\ closure = <<>>
  /\ commenter = <<>>

NextPropagator ==
  \/ \E ctx \in {NoSpan, ParentSpanID}, c \in Maps(CarrierKeys) : InjectCall(ctx, c)
  \/ \E ctx \in {NoSpan, ParentSpanID}, c \in Maps(CarrierKeys) : ExtractCall(ctx, c)
  \/ \E keys \in KeyOrders(propagator) : FieldsCall(keys)

SpecPropagator == InitPropagator /\ [][NextPropagator]_vars

----------------------------------------------------------------------------
\* Reading the effects of a call

Count(effs, kind) == Len(SelectEffs(effs, kind))

\* The positions in effs of the effects of the given kinds.
Positions(effs, kinds) == {i \in 1..Len(effs) : effs[i].e \in kinds}

\* The calls made on a span (tracer.Start aside).
SpanCalls == {"AddEvent", "RecordError", "SetStatus", "End"}

\* The error events of a span.
ErrorEvents(sp) == Len(SelectSeq(sp.events, LAMBDA ev : ev = "exception"))

\* The keys of an attribute list.
Keys(attrs) == {attrs[i].key : i \in 1..Len(attrs)}

\* The attributes of a list that have the given key.
Values(attrs, k) == SelectSeq(attrs, LAMBDA a : a.key = k)

\* The first n attributes of a list.
Prefix(attrs, n) == SubSeq(attrs, 1, n)

\* The attributes of a list after the first n.
Suffix(attrs, n) == SubSeq(attrs, n + 1, Len(attrs))

----------------------------------------------------------------------------
\* C1: for every call of Connect, Commit and Rollback, a span started for the
\* call is ended exactly once before the call returns, and the metric closure
\* is invoked exactly once, with the error the call returns.
C1_SpanEndedOnceMetricOnce ==
  last.op \in {"Connect", "Commit", "Rollback"} =>
    /\ (last.span # NoSpan =>
          /\ Cardinality({i \in Positions(last.effs, {"End"}) : last.effs[i].span = last.span}) = 1
          /\ spans[last.span].ends = 1)
    /\ Count(last.effs, "metric") = 1
    /\ \A i \in Positions(last.effs, {"metric"}) : last.effs[i].arg = last.ret

\* C2: Connect, Next, Close, Commit and Rollback call the delegate exactly
\* once and return exactly the error the delegate returned, whatever the
\* options and whether or not a span was created.
C2_Transparent ==
  last.op \in {"Connect", "Next", "Close", "Commit", "Rollback"} =>
    /\ Count(last.effs, "delegate") = 1
    /\ \A i \in Positions(last.effs, {"delegate"}) : last.effs[i].arg = last.derr
    /\ last.ret = last.derr

C2_Witness ==
  /\ last.op = "Connect"
  /\ last.derr = "other"
  /\ last.ret = "other"
  /\ last.span = NoSpan
  /\ cfg.SemConvStabilityOptIn = OTelSemConvStabilityOptInDup

\* C3: Connect and newRows create a span if and only if the omit flag of the
\* operation is false and SpanFilter is nil or returns true.
C3_SpanIffNotOmittedAndFiltered ==
  LET passes == cfg.SpanOptions.SpanFilter \in {"nil", "keep"}
      omit   == IF last.op = "Connect" THEN cfg.SpanOptions.OmitConnectorConnect
                ELSE cfg.SpanOptions.OmitRows
  IN last.op \in {"Connect", "newRows"} =>
       /\ Count(last.effs, "Start") = (IF ~omit /\ passes THEN 1 ELSE 0)
       /\ (last.span # NoSpan <=> ~omit /\ passes)
       /\ (last.span # NoSpan => last.span \in 1..Len(spans))

C3_Witness ==
  /\ last.op = "newRows"
  /\ cfg.SpanOptions.OmitRows
  /\ cfg.SpanOptions.SpanFilter = "keep"
  /\ spans = <<>>

\* C4: a suppressed span does not suppress the metric: Connect without a span
\* invokes its metric closure exactly once, and Close of a rows wrapper that
\* has no span invokes its metric closure and makes no call on any span.
C4_MetricWithoutSpan ==
  (last.op \in {"Connect", "Close"} /\ last.span = NoSpan) =>
    /\ Count(last.effs, "metric") = 1
    /\ Positions(last.effs, SpanCalls \cup {"Start"}) = {}
    /\ \A i \in 1..Len(last.effs) : last.effs[i].span = NoSpan

C4_Witness ==
  /\ last.op = "Close"
  /\ last.span = NoSpan
  /\ last.derr = "other"
  /\ cfg.SpanOptions.SpanFilter = "omit"
  /\ Len(legacyLatency) = 1

\* C5: the rows span is started in newRows, before any Next; a Next call,
\* whatever the delegate returns, neither ends it nor starts another span;
\* Close ends it whether or not the delegate's Close fails; there is one
\* span per result set.
C5_RowsSpanStep ==
  /\ (last'.op = "newRows" /\ last'.span # NoSpan =>
        /\ Len(spans') = Len(spans) + 1
        /\ last'.span = Len(spans')
        /\ spans'[last'.span].name = MethodRows
        /\ spans'[last'.span].ends = 0
        /\ rows'[last'.w].nexts = 0)
  /\ (last'.op = "Next" =>
        /\ Len(spans') = Len(spans)
        /\ \A i \in 1..Len(spans) : spans'[i].ends = spans[i].ends
        /\ (last'.span # NoSpan => spans'[last'.span].ends = 0))
  /\ (last'.op = "Close" /\ last'.span # NoSpan =>
        /\ Len(spans') = Len(spans)
        /\ spans'[last'.span].ends = spans[last'.span].ends + 1)
  /\ (obj = "otRows" =>
        /\ Len(spans') <= Len(rows')
        /\ \A v, w \in 1..Len(rows') :
             (v # w /\ rows'[v].span # NoSpan) => rows'[v].span # rows'[w].span)

C5_RowsSpanLifetime == [][C5_RowsSpanStep]_vars

C5_Witness ==
  /\ last.op = "Close"
  /\ last.derr = "other"
  /\ last.span # NoSpan
  /\ rows[last.w].nexts = 1
  /\ spans[last.span].status = "Error"
  /\ spans[last.span].ends = 1

\* C6: in every call of rows Close and of Connect the delegate's error is
\* recorded on the span first, then the span is ended, then the metric
\* closure is invoked: no call on the span follows its End and the metric
\* closure does not precede it.
C6_RecordEndMetricOrder ==
  LET effs    == last.effs
      rec     == Positions(effs, {"recordSpanError", "RecordError", "SetStatus"})
      end     == Positions(effs, {"End"})
      metric  == Positions(effs, {"metric"})
      deleg   == Positions(effs, {"delegate"})
  IN last.op \in {"Close", "Connect"} =>
       /\ \A d \in deleg, r \in rec : d < r
       /\ \A r \in rec, e \in end : r < e
       /\ \A e \in end, m \in metric : e < m
       /\ \A r \in rec, m \in metric : r < m
       /\ \A e \in end, i \in Positions(effs, SpanCalls) : i <= e
       /\ (last.span # NoSpan => end # {})
       /\ metric # {}
       /\ (last.derr # "nil" => Positions(effs, {"recordSpanError"}) # {})

C6_Witness ==
  /\ last.op = "Close"
  /\ last.derr = "other"
  /\ last.span # NoSpan
  /\ Count(last.effs, "RecordError") = 1
  /\ Count(last.effs, "End") = 1
  /\ Count(last.effs, "metric") = 1

\* C7: a Next call whose delegate returns io.EOF returns io.EOF and does not
\* call recordSpanError: the status of the span and its error events are as
\* they were, for every RecordError and DisableErrSkip.
C7_EOFStep ==
  (last'.op = "Next" /\ last'.derr = "EOF") =>
    /\ last'.ret = "EOF"
    /\ Positions(last'.effs, {"recordSpanError", "RecordError", "SetStatus"}) = {}
    /\ (last'.span # NoSpan =>
          /\ spans'[last'.span].status = spans[last'.span].status
          /\ ErrorEvents(spans'[last'.span]) = ErrorEvents(spans[last'.span]))
    /\ (last'.span # NoSpan /\ rows[last'.w].nexts = 0 =>
          /\ spans'[last'.span].status = "Unset"
          /\ ErrorEvents(spans'[last'.span]) = 0)

C7_EOFNotRecorded == [][C7_EOFStep]_vars

C7_Witness ==
  /\ last.op = "Next"
  /\ last.derr = "EOF"
  /\ last.span # NoSpan
  /\ cfg.SpanOptions.RecordError = "accept"
  /\ ~cfg.SpanOptions.DisableErrSkip
  /\ spans[last.span].status = "Unset"

\* C8: recordSpanError on a non-nil span, RecordError unset or returning
\* true: driver.ErrSkip sets status Error and adds one error event when
\* DisableErrSkip is false, and leaves the status Unset with no event when it
\* is true; any other non-nil error sets status Error and adds one error
\* event whatever DisableErrSkip is.
C8_ErrSkip ==
  (/\ last.op = "recordSpanError"
   /\ last.span # NoSpan
   /\ cfg.SpanOptions.RecordError \in {"nil", "accept"}) =>
    LET sp == spans[last.span]
        recorded == sp.status = "Error" /\ ErrorEvents(sp) = 1 /\ Len(sp.events) = 1
        untouched == sp.status = "Unset" /\ sp.events = <<>>
    IN /\ (last.derr = "ErrSkip" /\ ~cfg.SpanOptions.DisableErrSkip => recorded)
       /\ (last.derr = "ErrSkip" /\ cfg.SpanOptions.DisableErrSkip => untouched)
       /\ (last.derr \notin {"nil", "ErrSkip"} => recorded)

C8_Witness ==
  /\ last.op = "recordSpanError"
  /\ last.span # NoSpan
  /\ last.derr = "ErrSkip"
  /\ cfg.SpanOptions.DisableErrSkip
  /\ cfg.SpanOptions.RecordError = "accept"
  /\ spans[last.span].status = "Unset"

\* C9: recordSpanError does nothing when the span is nil, when the error is
\* nil, or when RecordError is set and returns false, whatever the error and
\* DisableErrSkip are.
C9_NoOp ==
  \A i \in Positions(last.effs, {"recordSpanError"}) :
    LET call == last.effs[i]
    IN (\/ call.span = NoSpan
        \/ call.arg = "nil"
        \/ cfg.SpanOptions.RecordError = "reject") =>
         /\ Positions(last.effs, {"RecordError", "SetStatus"}) = {}
         /\ (last.op = "recordSpanError" /\ call.span # NoSpan =>
               /\ spans[call.span].status = "Unset"
               /\ spans[call.span].events = <<>>)
         /\ (call.span = NoSpan => Positions(last.effs, SpanCalls \cup {"Start"}) = {})

C9_Witness ==
  /\ last.op = "recordSpanError"
  /\ last.span # NoSpan
  /\ last.derr = "other"
  /\ cfg.SpanOptions.RecordError = "reject"
  /\ ~cfg.SpanOptions.DisableErrSkip
  /\ spans[last.span].status = "Unset"

\* C10: each invocation of the metric closure records one observation on the
\* legacy latency histogram and none on the duration histogram in
\* legacy-only mode, one on the duration histogram and none on the legacy one
\* in stable-only mode, and one on each in dual-emit mode.
C10_ObservationsStep ==
  LET n      == Count(last'.effs, "metric")
      mode   == cfg.SemConvStabilityOptIn
      legacy == IF mode \in {OTelSemConvStabilityOptInNone, OTelSemConvStabilityOptInDup} THEN n ELSE 0
      stable == IF mode \in {OTelSemConvStabilityOptInStable, OTelSemConvStabilityOptInDup} THEN n ELSE 0
  IN /\ n \in {0, 1}
     /\ Len(legacyLatency') = Len(legacyLatency) + legacy
     /\ Len(duration') = Len(duration) + stable
     /\ Count(last'.effs, "legacyLatency.Record") = legacy
     /\ Count(last'.effs, "duration.Record") = stable

C10_ObservationsPerMode == [][C10_ObservationsStep]_vars

C10_Witness ==
  /\ cfg.SemConvStabilityOptIn = OTelSemConvStabilityOptInDup
  /\ last.op = "Connect"
  /\ ncalls = 1
  /\ Len(legacyLatency) = 1
  /\ Len(duration) = 1

----------------------------------------------------------------------------
\* C11: the two histograms never receive a merged attribute set.  Every
\* legacy observation carries the method and status attributes and neither
\* the operation-name nor the error-type attribute; every stable observation
\* carries the operation-name attribute and neither method nor status, and
\* carries error-type when the closure was invoked with an error that counts
\* as one.  In dual-emit mode one invocation records one observation on each
\* histogram, both built on the same list of base and getter attributes.
C11_NoMergedAttributes ==
  /\ \A i \in 1..Len(legacyLatency) :
       LET ks == Keys(legacyLatency[i].attrs)
       IN /\ {queryMethodKey, queryStatusKey} \subseteq ks
          /\ ks \cap {DBOperationNameKey, ErrorTypeKey} = {}
  /\ \A i \in 1..Len(duration) :
       LET ks == Keys(duration[i].attrs)
       IN /\ DBOperationNameKey \in ks
          /\ ks \cap {queryMethodKey, queryStatusKey} = {}
  /\ last.op = "recordMetric" =>
       LET legacy == SelectEffs(last.effs, "legacyLatency.Record")
           stable == SelectEffs(last.effs, "duration.Record")
           error == last.args.err # "nil"
                    /\ ~(cfg.DisableSkipErrMeasurement /\ last.args.err = "ErrSkip")
       IN /\ \A i \in 1..Len(stable) : error => ErrorTypeKey \in Keys(stable[i].attrs)
          /\ cfg.SemConvStabilityOptIn = OTelSemConvStabilityOptInDup =>
               /\ Len(legacy) = 1
               /\ Len(stable) = 1
               /\ \E n \in 0..Len(legacy[1].attrs) :
                    /\ Prefix(legacy[1].attrs, n) = Prefix(stable[1].attrs, n)
                    /\ Keys(Suffix(legacy[1].attrs, n)) = {queryMethodKey, queryStatusKey}
                    /\ Keys(Suffix(stable[1].attrs, n)) \subseteq
                         {DBOperationNameKey, ErrorTypeKey}

\* A dual-emit invocation with an error, base attributes and both getters.
C11_Witness ==
  /\ last.op = "recordMetric"
  /\ cfg.SemConvStabilityOptIn = OTelSemConvStabilityOptInDup
  /\ last.args.err = "other"
  /\ Len(cfg.Attributes) = 2
  /\ cfg.InstrumentAttributesGetter
  /\ cfg.InstrumentErrorAttributesGetter
  /\ legacyLatency # <<>>
  /\ duration # <<>>

----------------------------------------------------------------------------
\* C12: the metric closure tags a nil error as status "ok" on the legacy
\* histogram and with no error-type attribute on the stable one, and a
\* non-nil error as status "error" and with one error-type attribute; when
\* DisableSkipErrMeasurement is set and the error is driver.ErrSkip itself the
\* tags are those of a nil error, and without DisableSkipErrMeasurement
\* driver.ErrSkip is tagged as an error.
C12_ErrorTags ==
  last.op = "recordMetric" =>
    LET err == last.args.err
        skipped == cfg.DisableSkipErrMeasurement /\ err = "ErrSkip"
        asError == err # "nil" /\ ~skipped
        legacy == SelectEffs(last.effs, "legacyLatency.Record")
        stable == SelectEffs(last.effs, "duration.Record")
    IN /\ \A i \in 1..Len(legacy) :
            Values(legacy[i].attrs, queryStatusKey) =
              << KeyValue(queryStatusKey, IF asError THEN "error" ELSE "ok") >>
       /\ \A i \in 1..Len(stable) :
            Len(Values(stable[i].attrs, ErrorTypeKey)) = IF asError THEN 1 ELSE 0
       /\ (err = "ErrSkip" /\ ~cfg.DisableSkipErrMeasurement) => asError

\* driver.ErrSkip under DisableSkipErrMeasurement, in dual-emit mode.
C12_Witness ==
  /\ last.op = "recordMetric"
  /\ last.args.err = "ErrSkip"
  /\ cfg.DisableSkipErrMeasurement
  /\ cfg.SemConvStabilityOptIn = OTelSemConvStabilityOptInDup
  /\ Len(legacyLatency) = 1
  /\ legacyLatency[1].tag = "ok"
  /\ duration[1].tag = ""

----------------------------------------------------------------------------
\* C13: the attribute list of every metric observation is, in order, the
\* configured base attributes, the InstrumentAttributesGetter result if that
\* getter is set, the InstrumentErrorAttributesGetter(err) result if that
\* getter is set and err is not nil, then the tags of the mode; the error
\* getter contributes nothing for a nil error.
C13_MetricAttributeOrder ==
  last.op = "recordMetric" =>
    LET err == last.args.err
        base == cfg.Attributes
        got == IF cfg.InstrumentAttributesGetter
                 THEN InstrumentAttributesGetter(last.args.method, "") ELSE <<>>
        goterr == IF cfg.InstrumentErrorAttributesGetter /\ err # "nil"
                    THEN InstrumentErrorAttributesGetter(err) ELSE <<>>
        n == Len(base) + Len(got) + Len(goterr)
        records == {i \in 1..Len(last.effs) :
                      last.effs[i].e \in {"legacyLatency.Record", "duration.Record"}}
    IN \A i \in records :
         LET attrs == last.effs[i].attrs
             tags == Keys(Suffix(attrs, n))
         IN /\ Len(attrs) > n
            /\ Prefix(attrs, n) = base \o got \o goterr
            /\ IF last.effs[i].e = "legacyLatency.Record"
                 THEN tags = {queryMethodKey, queryStatusKey}
                 ELSE DBOperationNameKey \in tags
                      /\ tags \subseteq {DBOperationNameKey, ErrorTypeKey}
            /\ (err = "nil" => Keys(InstrumentErrorAttributesGetter(err)) \cap Keys(attrs) = {})

\* An invocation with a nil error with both getters set and base attributes.
C13_Witness ==
  /\ last.op = "recordMetric"
  /\ last.args.err = "nil"
  /\ Len(cfg.Attributes) = 2
  /\ cfg.InstrumentAttributesGetter
  /\ cfg.InstrumentErrorAttributesGetter
  /\ duration # <<>>
  /\ Len(duration[1].attrs) = 4

----------------------------------------------------------------------------
\* The attribute lists a call hands to the tracer or the meter when it runs
\* alone: the base attributes followed by the call's own additions.
OwnLists(c, call) ==
  IF call.op = "createSpan"
    THEN << SpanAttributes(c, call.method, call.enableDBStatement, call.query) >>
    ELSE LET effs == recordMetric(c, call.method, call.err)
             recs == SelectSeq(effs, LAMBDA eff :
                       eff.e \in {"legacyLatency.Record", "duration.Record"})
         IN [i \in 1..Len(recs) |-> recs[i].attrs]

\* C14: when several operations sharing one config run createSpan or a
\* metric closure concurrently, then under every interleaving each attribute
\* list a call hands to the tracer or the meter is the base attributes
\* followed by that call's own additions (no call has written into storage
\* reachable from cfg.Attributes, spare capacity of its backing array
\* included, that another call reads).
C14_OwnAttributesUnderInterleaving ==
  \A g \in DOMAIN gos :
    \A j \in 1..Len(gos[g].handed) :
      gos[g].handed[j] = OwnLists(cfg, gos[g].call)[j]

----------------------------------------------------------------------------
\* The query-text attributes of an attribute list.
QueryText(attrs) == SelectSeq(attrs, LAMBDA a : a.key \in {DBStatementKey, DBQueryTextKey})

\* C15: createSpan attaches query-text attributes only when
\* enableDBStatement is true and DisableQuery is false: then exactly one with
\* the legacy key in legacy-only mode, exactly two (legacy key and stable
\* key) in dual-emit mode, exactly one with the stable key in stable-only
\* mode, each valued with the unmodified query; in every other case none, in
\* any mode.
C15_QueryTextPerMode ==
  last.op = "createSpan" =>
    LET qt == QueryText(spans[last.span].attrs)
        mode == cfg.SemConvStabilityOptIn
    IN IF last.args.enableDBStatement /\ ~cfg.SpanOptions.DisableQuery
         THEN /\ \A i \in 1..Len(qt) : qt[i].value = last.args.query
              /\ mode = OTelSemConvStabilityOptInNone =>
                   Len(qt) = 1 /\ Keys(qt) = {DBStatementKey}
              /\ mode = OTelSemConvStabilityOptInDup =>
                   Len(qt) = 2 /\ Keys(qt) = {DBStatementKey, DBQueryTextKey}
              /\ mode = OTelSemConvStabilityOptInStable =>
                   Len(qt) = 1 /\ Keys(qt) = {DBQueryTextKey}
         ELSE qt = <<>>

\* A span created in dual-emit mode with the query text enabled, after one
\* created with enableDBStatement false.
C15_Witness ==
  /\ last.op = "createSpan"
  /\ cfg.SemConvStabilityOptIn = OTelSemConvStabilityOptInDup
  /\ last.args.enableDBStatement
  /\ ~cfg.SpanOptions.DisableQuery
  /\ Len(spans) = 2
  /\ QueryText(spans[1].attrs) = <<>>
  /\ Len(QueryText(spans[2].attrs)) = 2

----------------------------------------------------------------------------
\* C16: the attributes of every span createSpan creates are, in order, the
\* base attributes in configured order, the query-text attributes if any,
\* the AttributesGetter result if a getter is set; the getter's output
\* replaces, removes or reorders no base attribute.
C16_SpanAttributeOrder ==
  last.op = "createSpan" =>
    LET attrs == spans[last.span].attrs
        base == cfg.Attributes
        qt == QueryText(attrs)
        got == IF cfg.AttributesGetter
                 THEN AttributesGetter(last.args.method, last.args.query) ELSE <<>>
    IN /\ attrs = base \o qt \o got
       /\ Prefix(attrs, Len(base)) = base

\* A span with two base attributes, query text and a getter.
C16_Witness ==
  /\ last.op = "createSpan"
  /\ Len(cfg.Attributes) = 2
  /\ cfg.AttributesGetter
  /\ last.args.enableDBStatement
  /\ ~cfg.SpanOptions.DisableQuery
  /\ Len(spans[last.span].attrs) >= 4

----------------------------------------------------------------------------
\* The events a step adds to span sp.
AddedEvents(sp) == Suffix(spans'[sp].events, Len(spans[sp].events))

\* Whether recordSpanError records err on a span: the RecordError predicate,
\* if set, accepts it, and it is not driver.ErrSkip under DisableErrSkip.
Recorded(spanOptions, err) ==
  /\ spanOptions.RecordError \in {"nil", "accept"}
  /\ ~(err = "ErrSkip" /\ spanOptions.DisableErrSkip)

\* C17 as stated: with a rows span present, each Next call adds exactly one
\* sql.rows.next event iff RowsNext is enabled, before the delegate's Next is
\* invoked, and exactly one error event iff the delegate returns an error
\* other than io.EOF.
C17_OriginalStep ==
  (last'.op = "Next" /\ last'.span # NoSpan) =>
    LET added == AddedEvents(last'.span)
        nexts == SelectSeq(added, LAMBDA ev : ev = EventRowsNext)
        errs == SelectSeq(added, LAMBDA ev : ev = "exception")
    IN /\ Len(nexts) = IF cfg.SpanOptions.RowsNext THEN 1 ELSE 0
       /\ \A i \in Positions(last'.effs, {"AddEvent"}) :
            \A j \in Positions(last'.effs, {"delegate"}) : i < j
       /\ Len(errs) = IF last'.derr \notin {"nil", "EOF"} THEN 1 ELSE 0
       /\ Len(added) = Len(nexts) + Len(errs)

C17_NextEventsOriginal == [][C17_OriginalStep]_vars

\* C17: with a rows span present, each Next call adds exactly one
\* sql.rows.next event iff RowsNext is enabled, before the delegate's Next is
\* invoked, and exactly one error event iff the delegate returns an error
\* other than io.EOF that recordSpanError records (the RecordError predicate,
\* if set, accepts it, and it is not driver.ErrSkip under DisableErrSkip); so
\* a Next failing with a recorded error adds two events with RowsNext enabled
\* and one with it disabled, and any other Next adds one or zero.
C17_Step ==
  (last'.op = "Next" /\ last'.span # NoSpan) =>
    LET added == AddedEvents(last'.span)
        nexts == SelectSeq(added, LAMBDA ev : ev = EventRowsNext)
        errs == SelectSeq(added, LAMBDA ev : ev = "exception")
        failing == last'.derr \notin {"nil", "EOF"} /\ Recorded(cfg.SpanOptions, last'.derr)
    IN /\ Len(nexts) = IF cfg.SpanOptions.RowsNext THEN 1 ELSE 0
       /\ \A i \in Positions(last'.effs, {"AddEvent"}) :
            \A j \in Positions(last'.effs, {"delegate"}) : i < j
       /\ Len(errs) = IF failing THEN 1 ELSE 0
       /\ Len(added) = Len(nexts) + Len(errs)
       /\ (failing /\ cfg.SpanOptions.RowsNext => added = <<EventRowsNext, "exception">>)
       /\ (failing /\ ~cfg.SpanOptions.RowsNext => added = <<"exception">>)
       /\ (~failing => Len(added) <= 1)

C17_NextEvents == [][C17_Step]_vars

\* A failing Next with RowsNext enabled, after a Next that failed with
\* driver.ErrSkip under DisableErrSkip: three events in all.
C17_Witness ==
  /\ last.op = "Next"
  /\ last.span # NoSpan
  /\ cfg.SpanOptions.RowsNext
  /\ cfg.SpanOptions.DisableErrSkip
  /\ last.derr = "other"
  /\ rows[last.w].nexts = 2
  /\ spans[last.span].events = <<EventRowsNext, EventRowsNext, "exception">>

----------------------------------------------------------------------------
\* C18: whenever a span is created and the calling context carries a valid
\* parent span, the created span has the parent's trace id and its parent
\* span id is the parent's span id; and the context createSpan returns, the
\* one Connect hands to the delegate, carries the newly created span.
C18_ParentLinkage ==
  /\ \A i \in Positions(last.effs, {"Start"}) :
       LET sp == spans[last.effs[i].span]
       IN ctxParent => sp.parent = ParentSpanID /\ sp.trace = ParentTraceID
  /\ (last.op = "Connect" /\ last.span # NoSpan) =>
       \A j \in Positions(last.effs, {"delegate"}) : last.effs[j].ctx = last.span

\* A Connect under a parent span: the second span of the behaviour, child of
\* the parent, handed to the delegate.
C18_Witness ==
  /\ last.op = "Connect"
  /\ ctxParent
  /\ last.span = 2
  /\ spans[2].parent = ParentSpanID
  /\ spans[2].trace = spans[1].trace
  /\ \E j \in Positions(last.effs, {"delegate"}) : last.effs[j].ctx = 2

----------------------------------------------------------------------------
\* C20: Commit and Rollback create their span if and only if filterSpan
\* returns true (SpanFilter nil or returning true), whether or not the
\* context captured at BeginTx carries a parent span; with no parent span and
\* no filter each call still produces exactly one span.
C20_TxSpanIffFilter ==
  last.op \in {"Commit", "Rollback"} =>
    /\ (last.span # NoSpan) <=> filterSpan(cfg.SpanOptions)
    /\ Count(last.effs, "Start") = IF filterSpan(cfg.SpanOptions) THEN 1 ELSE 0

----------------------------------------------------------------------------
\* The concatenation of a sequence of lists.
RECURSIVE Flatten(_)
Flatten(lists) ==
  IF lists = <<>> THEN <<>> ELSE Head(lists) \o Flatten(Tail(lists))

\* C21: applying WithAttributes several times accumulates: cfg.Attributes is
\* the concatenation of the attributes of all applications in call order,
\* duplicate keys preserved; an application with no attributes leaves the
\* list as it was.
C21_WithAttributesAccumulates ==
  obj = "config" => cfg.Attributes = Flatten(options)


\* The smallest slot whose name is not in names; maxDriverSlot when all are
\* taken.
SmallestFree(driverName, names) ==
  LET free == {i \in 0..(maxDriverSlot - 1) : RegName(driverName, i) \notin names}
  IN IF free = {} THEN maxDriverSlot
     ELSE CHOOSE i \in free : \A j \in free : i <= j

\* The names the Register calls made so far have returned, in one list.
ReturnedNames ==
  LET RECURSIVE All(_)
      All(gs) == IF gs = {} THEN <<>>
                 ELSE LET g == CHOOSE x \in gs : TRUE
                      IN SelectSeq(gos[g].rets, LAMBDA r : r.err = "nil") \o All(gs \ {g})
  IN All(Goroutines)

PairwiseDistinct(seq) ==
  \A a, b \in 1..Len(seq) : a # b => seq[a] # seq[b]

\* C22: a Register call that got past sql.Open returns the name
\* "<driverName>-otelsql-<i>" for the smallest i in [0, maxDriverSlot) that
\* is not a registered driver name and registers exactly that name; when all
\* names are taken it returns an error and registers nothing; the names the
\* calls have returned are pairwise distinct.
C22_RegisterStep ==
  \A g \in Goroutines :
    (obj = "Register" /\ gos[g].pc \in {"scan", "register"}
       /\ Len(gos'[g].rets) > Len(gos[g].rets)) =>
      LET r == gos'[g].rets[Len(gos'[g].rets)]
          free == SmallestFree(gos[g].driverName, drivers)
      IN /\ IF free < maxDriverSlot
              THEN /\ r.err = "nil"
                   /\ r.name = RegName(gos[g].driverName, free)
                   /\ drivers' = drivers \cup {r.name}
                   /\ r.name \notin drivers
              ELSE /\ r.err = "slots"
                   /\ r.name = ""
                   /\ drivers' = drivers
         /\ PairwiseDistinct(ReturnedNames')

C22_RegisterSmallestFree == [][C22_RegisterStep]_vars

\* Successive calls have returned a name of a slot other than 0, and a call
\* has found all slots taken.
C22_Witness ==
  /\ obj = "Register"
  /\ \E g \in Goroutines :
       /\ Len(gos[g].rets) = 2
       /\ gos[g].rets[1] = [name |-> RegName(testDriverName, 1), err |-> "nil"]
       /\ gos[g].rets[2] = [name |-> "", err |-> "slots"]

\* The free slots of a driver.
FreeSlots(driverName, names) ==
  {i \in 0..(maxDriverSlot - 1) : RegName(driverName, i) \notin names}

C29_Atomic ==
  obj = "Register" =>
    /\ \A g \in Goroutines :
         gos[g].pc \in {"scan", "register"} => registerLock = g
    /\ PairwiseDistinct(ReturnedNames)
    /\ \A g \in Goroutines : \A k \in 1..Len(gos[g].rets) :
         gos[g].rets[k].err # "panic"
    /\ \A k \in 1..Len(ReturnedNames) : ReturnedNames[k].name \in drivers

C29_SuccessTakesSlot ==
  \A g \in Goroutines :
    (obj = "Register" /\ Len(gos'[g].rets) > Len(gos[g].rets)) =>
      LET r == gos'[g].rets[Len(gos'[g].rets)]
      IN IF r.err = "nil"
           THEN Cardinality(FreeSlots(gos[g].driverName, drivers'))
                  = Cardinality(FreeSlots(gos[g].driverName, drivers)) - 1
           ELSE drivers' = drivers

\* C29: concurrent Register calls never return the same name and no name is
\* registered twice (sql.Register never panics): a goroutine scanning or
\* registering holds registerLock, and every successful call takes one free
\* slot, so with k free slots at most k calls succeed.
C29_ConcurrentRegister == []C29_Atomic /\ [][C29_SuccessTakesSlot]_vars

\* A goroutine has chosen a free slot and is about to register it while the
\* other one, having returned a name already, waits for registerLock.
C29_Witness ==
  /\ obj = "Register"
  /\ \E g, h \in Goroutines :
       /\ g # h
       /\ gos[g].pc = "register"
       /\ gos[h].pc = "lock"
       /\ gos[g].driverName = gos[h].driverName
       /\ Len(gos[h].rets) = 1 /\ gos[h].rets[1].err = "nil"


\* C23: withComment returns the query unchanged when the commenter is
\* disabled, whatever the context, and when it is enabled but the propagator
\* injects no field for the context; it never appends an empty comment, and
\* when it appends a comment the query is an unmodified prefix of the result.
C23_WithComment ==
  (obj = "commenter" /\ last.op = "withComment") =>
    LET ctx == last.args[1]
        query == last.args[2]
        fields == InjectFields(commenter.propagator, ctx)
        tail == SubSeq(last.ret, Len(query) + 1, Len(last.ret))
    IN /\ ~commenter.enabled => last.ret = query
       /\ (commenter.enabled /\ fields = <<>>) => last.ret = query
       /\ SubSeq(last.ret, 1, Len(query)) = query
       /\ last.ret # query =>
            /\ Len(tail) > Len(" /**/")
            /\ SubSeq(tail, 1, 3) = " /*"
            /\ SubSeq(tail, Len(tail) - 1, Len(tail)) = "*/"

\* An enabled commenter whose propagator finds nothing to inject in a
\* context that carries a span context has returned the query as it was.
C23_Witness ==
  /\ obj = "commenter"
  /\ last.op = "withComment"
  /\ commenter.enabled
  /\ commenter.propagator = {"Baggage"}
  /\ last.args[1].traceparent # ""
  /\ carrier = <<>>
  /\ last.ret = last.args[2]


\* The fixed identifier of the driver sentinel err is ("" if it is none).
SentinelType(err) ==
  IF ErrorsIs(err, "ErrBadConn") THEN "database/sql/driver.ErrBadConn"
  ELSE IF ErrorsIs(err, "ErrSkip") THEN "database/sql/driver.ErrSkip"
  ELSE IF ErrorsIs(err, "ErrRemoveArgument") THEN "database/sql/driver.ErrRemoveArgument"
  ELSE ""

\* What ErrorTypeAttributes returned for err is no attribute for nil,
\* otherwise one error.type attribute: the sentinel's identifier, or value
\* when err is no sentinel.
ClassifiedAs(ret, err, value) ==
  (obj = "semconv" /\ last.op = "ErrorTypeAttributes") =>
    IF err = "nil" THEN ret = <<>>
    ELSE /\ Len(ret) = 1
         /\ ret[1].key = ErrorTypeKey
         /\ ret[1].value = IF SentinelType(err) # "" THEN SentinelType(err) ELSE value

\* C24 as stated: a nil error yields no attribute; a non-nil error yields
\* exactly one error.type value, the fixed identifier for the three driver
\* sentinels, otherwise package path "." type name of the dynamic type, and
\* the generic "other" value when that name is empty.
C24_ErrorTypeOriginal ==
  LET t == TypeOf(last.derr)
  IN ClassifiedAs(last.ret, last.derr,
               IF t.PkgPath = "" /\ t.Name = "" THEN ErrorTypeOther
               ELSE t.PkgPath \o "." \o t.Name)

\* C24, amended: a nil error yields no attribute; a non-nil error yields
\* exactly one error.type value: the fixed identifier for the three driver
\* sentinels (matched with errors.Is, ErrBadConn first), otherwise package
\* path "." type name of the dynamic type, or, for a type that has neither
\* (a pointer type such as *errors.errorString), the string form of the
\* type; the generic "other" value only if that were empty.
C24_ErrorType ==
  LET t == TypeOf(last.derr)
      name == IF t.PkgPath = "" /\ t.Name = "" THEN t.String
              ELSE t.PkgPath \o "." \o t.Name
  IN ClassifiedAs(last.ret, last.derr, IF name = "" THEN ErrorTypeOther ELSE name)

\* An errors.New error has been classified by the string form of its
\* pointer type.
C24_Witness ==
  /\ obj = "semconv"
  /\ last.op = "ErrorTypeAttributes"
  /\ last.derr = "other"
  /\ last.ret = <<KeyValue(ErrorTypeKey, "*errors.errorString")>>


\* C25: in dual-emit mode an invocation of the closure records one legacy
\* and one stable observation, both from the one duration between the
\* creation of the closure and its invocation: the legacy value is that
\* duration in milliseconds, the stable value the same duration in seconds,
\* so legacy = 1000 x stable.
C25_OneDurationTwoUnits ==
  (obj = "clock" /\ last.op = "closure"
     /\ cfg.SemConvStabilityOptIn = OTelSemConvStabilityOptInDup) =>
    LET elapsed == last.args[2] - last.args[1]
        legacy == last.ret.legacy
        stable == last.ret.stable
    IN /\ Len(legacy) = 1 /\ Len(stable) = 1
       /\ legacy[1].value = Rat(elapsed, 1)
       /\ stable[1].value = Rat(elapsed, 1000)
       /\ legacy[1].value.num * stable[1].value.den
            = 1000 * stable[1].value.num * legacy[1].value.den
       /\ legacyLatency[Len(legacyLatency)] = legacy[1]
       /\ duration[Len(duration)] = stable[1]

\* A closure created at 0 and invoked with nil 2 s later has recorded 2000
\* and 2, while a closure created later is still pending.
C25_Witness ==
  /\ obj = "clock"
  /\ last.op = "closure"
  /\ cfg.SemConvStabilityOptIn = OTelSemConvStabilityOptInDup
  /\ last.args = <<0, 2000>>
  /\ last.derr = "nil"
  /\ last.ret.legacy[1].value = [num |-> 2000, den |-> 1]
  /\ last.ret.legacy[1].tag = "ok"
  /\ last.ret.stable[1].value = [num |-> 2, den |-> 1]
  /\ \E k \in 1..Len(closure) : closure[k].startTime > 0


\* C26: for any sequence of Next and Close calls on one rows wrapper, Close
\* more than once included, the rows span is ended at most once and the
\* metric closure obtained in newRows is invoked at most once: a Close after
\* the first neither calls span.End nor invokes the closure.
C26_RowsEndedAndMeasuredAtMostOnce ==
  /\ \A w \in 1..Len(rows) :
       rows[w].span # NoSpan => spans[rows[w].span].ends <= 1
  /\ (last.op = "Close" /\ rows[last.w].closes > 1) =>
       /\ Count(last.effs, "metric") = 0
       /\ Count(last.effs, "End") = 0


\* The effects of a call that reach a histogram or invoke the closure.
MetricEffs == {"metric", "legacyLatency.Record", "duration.Record"}

\* C27: on a rows wrapper the metric closure is invoked with exactly the
\* error the delegate's Close returned; Next records its error on the span
\* only and touches no metric, so the sql.rows observation of a Close that
\* succeeds is tagged as success, even when the span's status is Error.
C27_RowsMetricErrorIsCloseError ==
  /\ last.op = "Next" => Positions(last.effs, MetricEffs) = {}
  /\ last.op = "Close" =>
       /\ \A i \in Positions(last.effs, {"metric"}) :
            /\ last.effs[i].arg = last.derr
            /\ last.effs[i].method = MethodRows
       /\ last.derr = "nil" =>
            /\ \A i \in Positions(last.effs, {"legacyLatency.Record"}) :
                 last.effs[i].arg = "ok"
            /\ \A i \in Positions(last.effs, {"duration.Record"}) :
                 last.effs[i].arg = ""

\* Next has failed and set the span's status to Error, then Close has
\* succeeded and recorded a success on both histograms.
C27_Witness ==
  /\ last.op = "Close"
  /\ last.derr = "nil"
  /\ last.span # NoSpan
  /\ spans[last.span].status = "Error"
  /\ rows[last.w].nexts > 0
  /\ Count(last.effs, "legacyLatency.Record") = 1
  /\ Count(last.effs, "duration.Record") = 1
  /\ legacyLatency[Len(legacyLatency)].tag = "ok"
  /\ Len(legacyLatency) = 1


\* The error-type classifier takes err for the skip sentinel.
ClassifiedErrSkip(err) == errorType(err) = "database/sql/driver.ErrSkip"

\* C28: an error is treated as the skip sentinel by recordSpanError (not
\* recorded under DisableErrSkip), by the legacy-latency recorder (status ok
\* under DisableSkipErrMeasurement) and by the stable-duration recorder (no
\* error.type under DisableSkipErrMeasurement) exactly when the classifier
\* classifies it as database/sql/driver.ErrSkip, errors wrapping
\* driver.ErrSkip included.
C28_SkipSentinelConsistent ==
  /\ (last.op = "recordSpanError" /\ last.span # NoSpan /\ last.derr # "nil"
         /\ cfg.SpanOptions.DisableErrSkip /\ cfg.SpanOptions.RecordError = "nil") =>
       (Count(last.effs, "RecordError") = 0 <=> ClassifiedErrSkip(last.derr))
  /\ (cfg.DisableSkipErrMeasurement /\ Count(last.effs, "metric") = 1) =>
       \A m \in Positions(last.effs, {"metric"}) :
         last.effs[m].arg # "nil" =>
           /\ \A i \in Positions(last.effs, {"legacyLatency.Record"}) :
                last.effs[i].arg = "ok" <=> ClassifiedErrSkip(last.effs[m].arg)
           /\ \A i \in Positions(last.effs, {"duration.Record"}) :
                last.effs[i].arg = "" <=> ClassifiedErrSkip(last.effs[m].arg)


C30_Step ==
  obj = "TextAttributesPropagator" =>
    /\ DOMAIN propagator' = DOMAIN propagator
    /\ last'.op = "Inject" =>
         /\ propagator' = propagator
         /\ \A k \in DOMAIN propagator :
              k \in DOMAIN carrier' /\ carrier'[k] = propagator[k]
    /\ last'.op = "Extract" =>
         /\ \A k \in DOMAIN propagator :
              propagator'[k] = IF k \in DOMAIN carrier' THEN carrier'[k]
                               ELSE propagator[k]
         /\ last'.ret = last'.args[1]
    /\ last'.op = "Fields" =>
         /\ propagator' = propagator
         /\ carrier' = carrier
         /\ {last'.ret[i] : i \in 1..Len(last'.ret)} = DOMAIN propagator
         /\ Len(last'.ret) = Cardinality(DOMAIN propagator)

\* C30: over any sequence of Inject, Extract and Fields calls the key set of
\* the Attributes map never changes: Inject leaves the map as it is and sets
\* every pair on the carrier, Extract only overwrites the values of keys the
\* map has with the carrier's value and returns the context it was given,
\* and Fields returns exactly the current keys.
C30_KeySetNeverChanges == [][C30_Step]_vars

\* Extract has overwritten the value of a key the map has from a carrier
\* that also holds a key the map does not have.
C30_Witness ==
  /\ obj = "TextAttributesPropagator"
  /\ last.op = "Extract"
  /\ DOMAIN propagator = {"service.name", "k1"}
  /\ DOMAIN carrier = {"k1", "traceparent"}
  /\ propagator["k1"] = "v2" /\ carrier["k1"] = "v2"
  /\ propagator["service.name"] = "v1"
  /\ ncalls = 3

============================================================================
